---- MODULE Spec2Model ----
(***************************************************************************)
(* KMemoryBlockTree of libmesosphere (kern_k_memory_layout.cpp): the       *)
(* split-insert Insert and the rejection loop GetRandomAlignedRegion, and   *)
(* the boot-time layout routines of namespace init built on them, over an   *)
(* address space whose arithmetic is that of uintptr_t, scaled down to word *)
(* values (all sums and differences are taken modulo word).                 *)
(***************************************************************************)
EXTENDS Integers, FiniteSets, Sequences, TLC

VARIABLES
    tree,        \* the blocks linked into the KMemoryBlockTree
    num_blocks,  \* slots of the block allocator handed out so far
    aborted,     \* MESOSPHERE_INIT_ABORT_UNLESS has fired: nothing runs any more
    pc,          \* "idle", or "loop" inside GetRandomAlignedRegion's while (true)
    frame,       \* locals of the GetRandomAlignedRegion call in progress
    last,        \* the call made last: the place it left by ("loop" while it is
                 \* in the loop) and the address it returned
    word,        \* number of values of uintptr_t / size_t in the build (2^64)
    arena,       \* capacity of the block allocator's arena
    phys_tree,   \* KMemoryLayout's physical tree (tree is then the virtual one)
    pool_pc,     \* position inside SetupPoolPartitionMemoryBlocks
    pool,        \* locals of SetupPoolPartitionMemoryBlocks
    core_pc,     \* position inside SetupCoreLocalRegionMemoryBlocks
    core,        \* locals of SetupCoreLocalRegionMemoryBlocks, the page allocator
                 \* and the page tables it programs
    storage,     \* the allocator slot behind each block of tree (slot -> block),
                 \* followed under StorageSpec
    linear,      \* the linear trees and the two static differences of
                 \* KMemoryLayout, and the position inside
                 \* InitializeLinearMemoryBlockTrees
    sema,        \* os::SemaphoreType: count, max_count and the owner of cs_sema
    thread,      \* the threads calling the semaphore: the call each is in and
                 \* its position in it
    heap,        \* g_heap (its free blocks), g_heap_mutex's owner and the counters
                 \* of fssystem_pooled_buffer.cpp
    buffer,      \* the PooledBuffer objects: m_buffer, m_size and the position of
                 \* the call each is in
    file,        \* one FileHandleStorage: the size of the file behind m_handle, the
                 \* cached m_size and the owner of m_mutex
    caller,      \* the threads calling the FileHandleStorage: the call each is in,
                 \* its position in it and its locals
    fstorage,    \* one FileStorage: the cached m_size, the size of m_base_file, the
                 \* position inside SetSize and the last call with its result
    atomic       \* one util::Atomic<T>: m_v and the last call with its result

tree_vars == <<tree, num_blocks, aborted, pc, frame, last>>
build_vars == <<word, arena>>
pool_vars == <<phys_tree, pool_pc, pool>>
core_vars == <<core_pc, core>>
sema_vars == <<sema, thread>>
buf_vars == <<heap, buffer>>
file_vars == <<file, caller>>
fs_vars == <<fstorage>>
atomic_vars == <<atomic>>
lib_vars == <<sema_vars, buf_vars, file_vars, fs_vars, atomic_vars>>
other_vars == <<storage, linear, lib_vars>>
vars == <<tree_vars, build_vars, pool_vars, core_vars, other_vars>>

----------------------------------------------------------------------------
(* Bounds of the model. *)

\* Number of values of uintptr_t / size_t where single calls on one tree are
\* checked.
AddrMod == 4
\* The tree governs [0, SpaceSize): the block it is constructed with.
SpaceSize == 3
\* Capacity of the block allocator's arena there.
MaxMemoryBlocks == 5

\* std::numeric_limits<uintptr_t>::max(), the "no pair address" sentinel.
UintMax == word - 1

Addresses == 0 .. UintMax
\* Insert is called with size > 0 (a block has size > 0).
Sizes == 1 .. UintMax
\* Attribute values (u32 in the build).
Attrs == {0, 1}
\* Type ids are bit masks; a type id is modelled as the set of its bits.
TypeIds == {{1}, {1, 2}, {2}}
\* Type of the block the tree is constructed with.
InitType == {1}
\* Pair address of the block the tree is constructed with: none (the sentinel),
\* or the start of a paired region.
InitPairs == {UintMax, 0}
\* Slots of the shared arena handed out when the tree starts being split: the
\* tree's own block, or all but one.
InitBlocks == {1, MaxMemoryBlocks - 1}
\* Arguments of GetRandomAlignedRegion.
RegionSizes == 0 .. 2
Alignments == {1, 2}

\* uintptr_t arithmetic wraps around.
Wrap(x) == x % word

----------------------------------------------------------------------------
(* KMemoryBlock and the tree's lookups. *)

KMemoryBlock(address, size, pair, attr, type) ==
    [address |-> address, size |-> size, pair |-> pair, attr |-> attr, type |-> type]

GetEndAddress(b) == Wrap(b.address + b.size)
GetLastAddress(b) == Wrap(GetEndAddress(b) - 1)

Contains(b, address) == b.address <= address /\ address <= GetLastAddress(b)

\* (this->type_id | type_id) == type_id
CanDerive(type, type_id) == type \subseteq type_id
\* (this->type_id | type_id) == this->type_id
IsDerivedFrom(type, type_id) == type_id \subseteq type

\* The blocks a containing-block lookup can return; it aborts when there is none.
FindContainingBlock(t, address) == {b \in t : Contains(b, address)}

\* The tree is an ordered map keyed on the blocks' ranges: its lookups are defined
\* as long as no block wraps around the address width and no two blocks overlap.
\* The model follows the program up to the first tree that breaks this, and
\* runs nothing on such a tree.
KeysOrdered(t) ==
    /\ \A b \in t : b.address + b.size <= word
    /\ \A b1, b2 \in t :
          b1 # b2 => (b1.address + b1.size <= b2.address \/ b2.address + b2.size <= b1.address)

\* GetDerivedRegionExtents: the lowest and the highest block deriving from type_id.
DerivedBlocks(t, type_id) == {b \in t : IsDerivedFrom(b.type, type_id)}
FirstBlock(bs) == CHOOSE b \in bs : \A c \in bs : b.address <= c.address
LastBlock(bs) == CHOOSE b \in bs : \A c \in bs : c.address <= b.address

\* util::IsAligned, util::AlignDown
IsAligned(value, alignment) == value % alignment = 0
AlignDown(value, alignment) == value - (value % alignment)

\* KSystemControl::Init::GenerateRandomRange: any value of [low, high].
GenerateRandomRange(low, high) == low .. high

----------------------------------------------------------------------------
(* KMemoryBlockTree::Insert *)

InsertedBlockEnd(address, size) == Wrap(address + size)
InsertedBlockLast(address, size) == Wrap(InsertedBlockEnd(address, size) - 1)

\* Insert without its third check.
InsertExit_NoDerive(it, address, size, type_id, old_attr) ==
    IF it.attr # old_attr THEN "attr"
    ELSE IF GetLastAddress(it) < InsertedBlockLast(address, size) THEN "fit"
    ELSE "split"

\* The place where Insert leaves its checks: one of the three "return false",
\* or "split" when it goes on to erase and reinsert.
InsertExit(it, address, size, type_id, old_attr) ==
    IF it.attr # old_attr THEN "attr"
    ELSE IF GetLastAddress(it) < InsertedBlockLast(address, size) THEN "fit"
    ELSE IF ~CanDerive(it.type, type_id) THEN "derive"
    ELSE "split"

NeedBefore(it, address) == it.address # address

\* The after-remainder inserted without the test for an empty one.
NeedAfter_Always(it, address, size) == TRUE

NeedAfter(it, address, size) ==
    Wrap(GetEndAddress(it) - 1) # InsertedBlockLast(address, size)

BeforeBlock(it, address, old_attr) ==
    KMemoryBlock(it.address, Wrap(address - it.address), it.pair, old_attr, it.type)

\* The new block given the old block's pair address, without the offset.
NewPair_NoOffset(it, address) == it.pair

NewPair(it, address) ==
    IF it.pair # UintMax THEN Wrap(it.pair + (address - it.address)) ELSE it.pair

NewBlock(it, address, size, type_id, new_attr) ==
    KMemoryBlock(address, size, NewPair(it, address), new_attr, type_id)

AfterPair(it, address, size) ==
    IF it.pair # UintMax
    THEN Wrap(it.pair + (InsertedBlockEnd(address, size) - it.address))
    ELSE it.pair

\* The after-remainder sized as if the new block started at the old block's start.
AfterBlock_OldSize(it, address, size, old_attr) ==
    KMemoryBlock(InsertedBlockEnd(address, size), Wrap(it.size - size),
                 AfterPair(it, address, size), old_attr, it.type)

AfterBlock(it, address, size, old_attr) ==
    KMemoryBlock(InsertedBlockEnd(address, size),
                 Wrap(GetEndAddress(it) - InsertedBlockEnd(address, size)),
                 AfterPair(it, address, size), old_attr, it.type)

\* KMemoryBlockAllocator::Allocate / Create hand out one more slot of the arena
\* per call, and abort once all of them are out.
AllocatorFull(nb) == nb >= arena

\* The erase and the up to three insertions, on tree t with nb slots handed out,
\* the lookup having returned it. outcome "true" is the return value; "abort" is
\* the allocator's abort, with the tree as it is at that point.
SplitResult(t, nb, it, address, size, type_id, new_attr, old_attr) ==
    LET before == NeedBefore(it, address)
        after  == NeedAfter(it, address, size)
        erased == t \ {it}
        t1     == IF before THEN erased \cup {BeforeBlock(it, address, old_attr)} ELSE erased
        nb1    == IF before THEN nb + 1 ELSE nb
        t2     == t1 \cup {NewBlock(it, address, size, type_id, new_attr)}
        nb2    == IF after THEN nb1 + 1 ELSE nb1
        t3     == IF after THEN t2 \cup {AfterBlock(it, address, size, old_attr)} ELSE t2
    IN  IF before /\ AllocatorFull(nb)
        THEN [tree |-> t1, num_blocks |-> nb, outcome |-> "abort", exit |-> "abort"]
        ELSE IF after /\ AllocatorFull(nb1)
        THEN [tree |-> t2, num_blocks |-> nb1, outcome |-> "abort", exit |-> "abort"]
        ELSE [tree |-> t3, num_blocks |-> nb2, outcome |-> "true", exit |-> "split"]

\* Insert with the derivation check made after the erase.
InsertResult_LateCheck(t, nb, it, address, size, type_id, new_attr, old_attr) ==
    LET exit == InsertExit(it, address, size, type_id, old_attr)
    IN  IF exit \in {"attr", "fit"}
        THEN [tree |-> t, num_blocks |-> nb, outcome |-> "false", exit |-> exit]
        ELSE IF exit = "derive"
        THEN [tree |-> t \ {it}, num_blocks |-> nb, outcome |-> "false", exit |-> exit]
        ELSE SplitResult(t, nb, it, address, size, type_id, new_attr, old_attr)

\* Insert as a whole: "return false" before anything is touched, or the split.
InsertResult(t, nb, it, address, size, type_id, new_attr, old_attr) ==
    LET exit == InsertExit(it, address, size, type_id, old_attr)
    IN  IF exit # "split"
        THEN [tree |-> t, num_blocks |-> nb, outcome |-> "false", exit |-> exit]
        ELSE SplitResult(t, nb, it, address, size, type_id, new_attr, old_attr)

NoCall == [op |-> "none", exit |-> "none", value |-> 0]

Exited(op, exit) == [op |-> op, exit |-> exit, value |-> 0]

Insert(address, size, type_id, new_attr, old_attr) ==
    /\ UNCHANGED <<pc, frame>>
    /\ IF FindContainingBlock(tree, address) = {}
       THEN /\ aborted' = TRUE
            /\ last' = Exited("Insert", "abort")
            /\ UNCHANGED <<tree, num_blocks>>
       ELSE \E it \in FindContainingBlock(tree, address) :
              LET r == InsertResult(tree, num_blocks, it, address, size,
                                    type_id, new_attr, old_attr)
              IN  /\ tree' = r.tree
                  /\ num_blocks' = r.num_blocks
                  /\ aborted' = (r.outcome = "abort")
                  /\ last' = Exited("Insert", r.exit)

----------------------------------------------------------------------------
(* The storage behind the blocks of Insert: st maps each slot of the        *)
(* allocator's arena that backs a block of the tree to that block. Slots    *)
(* are handed out in order, slot nb after nb of them are out.               *)

\* cur_block: the slot of the block the lookup returned.
OriginalSlot(st, it) == CHOOSE slot \in DOMAIN st : st[slot] = it

\* Lines 41-69 on the slots: erase(it) unlinks cur_block's slot, the placement
\* new of line 56 or 62 fills it again, Allocate (line 58) and Create (line 68)
\* take the next slot.
SplitStorage(st, nb, it, address, size, type_id, new_attr, old_attr) ==
    LET before == NeedBefore(it, address)
        after  == NeedAfter(it, address, size)
        cur    == OriginalSlot(st, it)
        erased == [slot \in (DOMAIN st) \ {cur} |-> st[slot]]
        s1     == IF before THEN (cur :> BeforeBlock(it, address, old_attr)) @@ erased
                  ELSE erased
        cur1   == IF before THEN nb ELSE cur
        nb1    == IF before THEN nb + 1 ELSE nb
        s2     == (cur1 :> NewBlock(it, address, size, type_id, new_attr)) @@ s1
        s3     == IF after THEN (nb1 :> AfterBlock(it, address, size, old_attr)) @@ s2
                  ELSE s2
    IN  IF before /\ AllocatorFull(nb) THEN s1
        ELSE IF after /\ AllocatorFull(nb1) THEN s2
        ELSE s3

InsertStorage(st, nb, it, address, size, type_id, new_attr, old_attr) ==
    IF InsertExit(it, address, size, type_id, old_attr) # "split" THEN st
    ELSE SplitStorage(st, nb, it, address, size, type_id, new_attr, old_attr)

\* Insert, the slots followed: the same call on tree and on its storage.
InsertOnStorage(address, size, type_id, new_attr, old_attr) ==
    /\ UNCHANGED <<pc, frame>>
    /\ IF FindContainingBlock(tree, address) = {}
       THEN /\ aborted' = TRUE
            /\ last' = Exited("Insert", "abort")
            /\ UNCHANGED <<tree, num_blocks, storage>>
       ELSE \E it \in FindContainingBlock(tree, address) :
              LET r == InsertResult(tree, num_blocks, it, address, size,
                                    type_id, new_attr, old_attr)
              IN  /\ tree' = r.tree
                  /\ num_blocks' = r.num_blocks
                  /\ storage' = InsertStorage(storage, num_blocks, it, address, size,
                                              type_id, new_attr, old_attr)
                  /\ aborted' = (r.outcome = "abort")
                  /\ last' = Exited("Insert", r.exit)

----------------------------------------------------------------------------
(* KMemoryBlockTree::GetRandomAlignedRegion *)

NoFrame ==
    [size |-> 0, alignment |-> 0, type_id |-> {}, first_address |-> 0, last_address |-> 0]

\* The locals of a call once the extents are known.
Frame(size, alignment, type_id, derived) ==
    [size |-> size, alignment |-> alignment, type_id |-> type_id,
     first_address |-> FirstBlock(derived).address,
     last_address |-> GetLastAddress(LastBlock(derived))]

\* Up to the loop, without the check of the extents' alignment.
GetRandomAlignedRegion_NoAlignCheck(size, alignment, type_id) ==
    /\ UNCHANGED <<tree, num_blocks>>
    /\ LET derived == DerivedBlocks(tree, type_id)
       IN  IF derived = {}
           THEN /\ aborted' = TRUE
                /\ last' = Exited("GetRandomAlignedRegion", "abort")
                /\ UNCHANGED <<pc, frame>>
           ELSE /\ pc' = "loop"
                /\ frame' = Frame(size, alignment, type_id, derived)
                /\ last' = Exited("GetRandomAlignedRegion", "loop")
                /\ UNCHANGED aborted

\* Up to the loop: the extents of type_id and the alignment check on them. The
\* extent query aborts when no block derives from type_id; the alignment check
\* aborts with the extents in hand.
GetRandomAlignedRegion(size, alignment, type_id) ==
    /\ UNCHANGED <<tree, num_blocks>>
    /\ LET derived == DerivedBlocks(tree, type_id)
       IN  IF derived = {}
           THEN /\ aborted' = TRUE
                /\ last' = Exited("GetRandomAlignedRegion", "abort")
                /\ UNCHANGED <<pc, frame>>
           ELSE IF ~IsAligned(FirstBlock(derived).address, alignment)
           THEN /\ aborted' = TRUE
                /\ frame' = Frame(size, alignment, type_id, derived)
                /\ last' = Exited("GetRandomAlignedRegion", "abort")
                /\ UNCHANGED pc
           ELSE /\ pc' = "loop"
                /\ frame' = Frame(size, alignment, type_id, derived)
                /\ last' = Exited("GetRandomAlignedRegion", "loop")
                /\ UNCHANGED aborted

\* The loop with the region check off by one: a range ending at last_address is
\* rejected.
CandidateExit_StrictRegion(t, f, candidate) ==
    IF ~(candidate < Wrap(candidate + f.size)) THEN "overflow"
    ELSE IF Wrap(candidate + f.size - 1) >= f.last_address THEN "region"
    ELSE IF FindContainingBlock(t, candidate) = {} THEN "abort"
    ELSE LET candidate_block == CHOOSE b \in FindContainingBlock(t, candidate) : TRUE
         IN  IF Wrap(candidate + f.size - 1) > GetLastAddress(candidate_block) THEN "block"
             ELSE IF candidate_block.type # f.type_id THEN "type"
             ELSE "return"

\* The loop without its last check, on the block's type.
CandidateExit_NoType(t, f, candidate) ==
    IF ~(candidate < Wrap(candidate + f.size)) THEN "overflow"
    ELSE IF Wrap(candidate + f.size - 1) > f.last_address THEN "region"
    ELSE IF FindContainingBlock(t, candidate) = {} THEN "abort"
    ELSE LET candidate_block == CHOOSE b \in FindContainingBlock(t, candidate) : TRUE
         IN  IF Wrap(candidate + f.size - 1) > GetLastAddress(candidate_block) THEN "block"
             ELSE "return"

\* The place where one turn of the loop, with this candidate, ends: one of the
\* four "continue", "return", or "abort" when the lookup finds no block.
CandidateExit(t, f, candidate) ==
    IF ~(candidate < Wrap(candidate + f.size)) THEN "overflow"
    ELSE IF Wrap(candidate + f.size - 1) > f.last_address THEN "region"
    ELSE IF FindContainingBlock(t, candidate) = {} THEN "abort"
    ELSE LET candidate_block == CHOOSE b \in FindContainingBlock(t, candidate) : TRUE
         IN  IF Wrap(candidate + f.size - 1) > GetLastAddress(candidate_block) THEN "block"
             ELSE IF candidate_block.type # f.type_id THEN "type"
             ELSE "return"

\* One turn of the while (true) loop, the random source giving r: "return" ends
\* the call, a "continue" leaves it in the loop, last telling the candidate it
\* examined and the check that rejected it.
RandomTurn(r) ==
    /\ pc = "loop"
    /\ r \in GenerateRandomRange(frame.first_address, frame.last_address)
    /\ UNCHANGED <<tree, num_blocks>>
    /\ LET candidate == AlignDown(r, frame.alignment)
           exit == CandidateExit(tree, frame, candidate)
       IN  CASE exit = "return" ->
                  /\ pc' = "idle"
                  /\ frame' = NoFrame
                  /\ last' = [op |-> "GetRandomAlignedRegion", exit |-> "return",
                              value |-> candidate]
                  /\ UNCHANGED aborted
             [] exit = "abort" ->
                  /\ pc' = "idle"
                  /\ frame' = NoFrame
                  /\ aborted' = TRUE
                  /\ last' = Exited("GetRandomAlignedRegion", "abort")
             [] OTHER ->
                  /\ last' = [op |-> "GetRandomAlignedRegion", exit |-> exit,
                              value |-> candidate]
                  /\ UNCHANGED <<pc, frame, aborted>>

RandomLoop ==
    /\ UNCHANGED <<build_vars, other_vars, pool_vars, core_vars>>
    /\ \E r \in Addresses : RandomTurn(r)

----------------------------------------------------------------------------

(* init::SetupPoolPartitionMemoryBlocks *)

\* Region types, as the sets of their bits: a type derives from another when it
\* has all of that one's bits. The pool types derive from the pool partition's,
\* and none of them from another of them.
KMemoryRegionType_None == {}
KMemoryRegionType_Dram == {1}
KMemoryRegionType_DramKernel == {1, 2}
KMemoryRegionType_DramPoolPartition == {1, 3}
KMemoryRegionType_DramApplicationPool == {1, 3, 4}
KMemoryRegionType_DramAppletPool == {1, 3, 5}
KMemoryRegionType_DramSystemNonSecurePool == {1, 3, 6}
KMemoryRegionType_DramMetadataPool == {1, 3, 7}
KMemoryRegionType_DramSystemPool == {1, 3, 8}
KMemoryRegionType_VirtualDramPoolPartition == {1, 9}
KMemoryRegionType_VirtualDramApplicationPool == {1, 9, 4}
KMemoryRegionType_VirtualDramAppletPool == {1, 9, 5}
KMemoryRegionType_VirtualDramSystemNonSecurePool == {1, 9, 6}
KMemoryRegionType_VirtualDramMetadataPool == {1, 9, 7}
KMemoryRegionType_VirtualDramSystemPool == {1, 9, 8}

\* Scaled down: one unit of the model is one carveout granule's half.
CarveoutAlignment == 2
CarveoutSizeMax == 8

\* KMemoryManager::CalculateMetadataOverheadSize: the management data of a pool
\* grows with the pool, one unit for every MetadataGranule units of it.
MetadataGranule == 4
CalculateMetadataOverheadSize(size) == size \div MetadataGranule

Min(a, b) == IF a <= b THEN a ELSE b

\* The lookups of the tree used by the setup; each is used on a tree that has
\* such a block, or the setup aborts.
FindFirstBlockByTypeAttr(t, type_id, attr) ==
    FirstBlock({b \in t : b.type = type_id /\ b.attr = attr})
HasBlockByTypeAttr(t, type_id, attr) == \E b \in t : b.type = type_id /\ b.attr = attr
FindFirstDerivedBlock(t, type_id) == FirstBlock(DerivedBlocks(t, type_id))

\* No call of SetupPoolPartitionMemoryBlocks.
NoPool ==
    [application_pool_size |-> 0, applet_pool_size |-> 0, unsafe_system_pool_min_size |-> 0,
     dram_first |-> 0, dram_end |-> 0, kernel_dram_start |-> 0, pool_partitions_start |-> 0,
     application_pool_start |-> 0, applet_pool_start |-> 0,
     unsafe_system_pool_start |-> 0, unsafe_system_pool_size |-> 0,
     dram_midpoint |-> 0, cur_pool_attr |-> 0, total_overhead_size |-> 0,
     metadata_pool_start |-> 0, metadata_pool_size |-> 0, system_pool_size |-> 0,
     inserted |-> <<>>]

\* The decisions of lines 242-251.
ApplicationPoolStart(dram_end, application_pool_size) ==
    Wrap(dram_end - application_pool_size)

\* The applet pool placed one unit too low.
AppletPoolStart_Gap(application_pool_start, applet_pool_size) ==
    Wrap(application_pool_start - applet_pool_size - 1)

AppletPoolStart(application_pool_start, applet_pool_size) ==
    Wrap(application_pool_start - applet_pool_size)

\* The non-secure system pool placed without aligning its start down.
UnsafeSystemPoolStart_Unaligned(kernel_dram_start, applet_pool_start, unsafe_system_pool_min_size) ==
    Min(Wrap(kernel_dram_start + CarveoutSizeMax),
        Wrap(applet_pool_start - unsafe_system_pool_min_size))

UnsafeSystemPoolStart(kernel_dram_start, applet_pool_start, unsafe_system_pool_min_size) ==
    Min(Wrap(kernel_dram_start + CarveoutSizeMax),
        AlignDown(Wrap(applet_pool_start - unsafe_system_pool_min_size), CarveoutAlignment))

DramMidpoint(dram_first, dram_end) == Wrap(dram_first + dram_end) \div 2

\* The application pool never split.
SingleApplicationPool_Always(dram_end, dram_midpoint, application_pool_start) == TRUE

\* The condition of line 251: the application pool goes in as one block.
SingleApplicationPool(dram_end, dram_midpoint, application_pool_start) ==
    dram_end <= dram_midpoint \/ dram_midpoint <= application_pool_start

\* The system pool one unit short.
SystemPoolSize_Short(metadata_pool_start, pool_partitions_start) ==
    Wrap(metadata_pool_start - pool_partitions_start - 1)

SystemPoolSize(metadata_pool_start, pool_partitions_start) ==
    Wrap(metadata_pool_start - pool_partitions_start)

\* Insert(address, size, type_id, new_attr) on tree t, old_attr defaulted to 0;
\* "abort" as well when the lookup finds no block.
TreeInsert(t, nb, address, size, type_id, new_attr) ==
    IF FindContainingBlock(t, address) = {}
    THEN [tree |-> t, num_blocks |-> nb, outcome |-> "abort", exit |-> "abort"]
    ELSE InsertResult(t, nb, CHOOSE it \in FindContainingBlock(t, address) : TRUE,
                      address, size, type_id, new_attr, 0)

PoolCall(start, size, phys_type, virt_type, attr) ==
    [start |-> start, size |-> size, phys_type |-> phys_type, virt_type |-> virt_type,
     attr |-> attr]

\* The tag not moved on: every call is given the same attribute value.
NextAttr_Same(cur_attr) == cur_attr

\* cur_attr++
NextAttr(cur_attr) == cur_attr + 1

\* The virtual Insert's result not looked at.
InsertPoolPartitionBlockIntoBothTrees_Unchecked(pt, vt, nb, start, size, phys_type, virt_type, cur_attr) ==
    LET attr == cur_attr
        r1   == TreeInsert(pt, nb, start, size, phys_type, attr)
        pair == FindFirstBlockByTypeAttr(r1.tree, phys_type, attr).pair
        r2   == TreeInsert(vt, r1.num_blocks, pair, size, virt_type, attr)
    IN  IF r1.outcome # "true"
        THEN [phys_tree |-> r1.tree, tree |-> vt, num_blocks |-> r1.num_blocks,
              cur_attr |-> NextAttr(cur_attr), attr |-> attr, ok |-> FALSE]
        ELSE [phys_tree |-> r1.tree, tree |-> r2.tree, num_blocks |-> r2.num_blocks,
              cur_attr |-> NextAttr(cur_attr), attr |-> attr, ok |-> r2.outcome # "abort"]

\* Both Inserts, each under MESOSPHERE_INIT_ABORT_UNLESS: ok is FALSE when the call
\* aborts, with the trees as they are then.
InsertPoolPartitionBlockIntoBothTrees(pt, vt, nb, start, size, phys_type, virt_type, cur_attr) ==
    LET attr == cur_attr
        r1   == TreeInsert(pt, nb, start, size, phys_type, attr)
        pair == FindFirstBlockByTypeAttr(r1.tree, phys_type, attr).pair
        r2   == TreeInsert(vt, r1.num_blocks, pair, size, virt_type, attr)
    IN  IF r1.outcome # "true"
        THEN [phys_tree |-> r1.tree, tree |-> vt, num_blocks |-> r1.num_blocks,
              cur_attr |-> NextAttr(cur_attr), attr |-> attr, ok |-> FALSE]
        ELSE [phys_tree |-> r1.tree, tree |-> r2.tree, num_blocks |-> r2.num_blocks,
              cur_attr |-> NextAttr(cur_attr), attr |-> attr, ok |-> r2.outcome = "true"]

\* What one call of InsertPoolPartitionBlockIntoBothTrees, with result r, leaves:
\* the trees, and either the abort or the setup moved on to next_pc with locals
\* next_pool and the call noted.
PoolStep(r, call, next_pc, next_pool) ==
    /\ phys_tree' = r.phys_tree
    /\ tree' = r.tree
    /\ num_blocks' = r.num_blocks
    /\ UNCHANGED <<pc, frame, last, build_vars, other_vars, core_vars>>
    /\ IF r.ok
       THEN /\ pool_pc' = next_pc
            /\ pool' = [next_pool EXCEPT !.inserted = Append(@, call)]
            /\ UNCHANGED aborted
       ELSE /\ aborted' = TRUE
            /\ UNCHANGED <<pool_pc, pool>>

\* Lines 226-250: the extents of DRAM, the sizes asked of KSystemControl, and the
\* starts decided from them. The lookups abort when they find no block.
SetupPoolPartitionMemoryBlocks(application_pool_size, applet_pool_size, unsafe_system_pool_min_size) ==
    /\ pool_pc = "start"
    /\ UNCHANGED <<tree, num_blocks, pc, frame, last, build_vars, other_vars, phys_tree, core_vars>>
    /\ LET dram   == DerivedBlocks(phys_tree, KMemoryRegionType_Dram)
           kernel == DerivedBlocks(phys_tree, KMemoryRegionType_DramKernel)
       IN  IF \/ dram = {}
              \/ kernel = {}
              \/ ~IsAligned(FirstBlock(kernel).address, CarveoutAlignment)
              \/ ~HasBlockByTypeAttr(phys_tree, KMemoryRegionType_DramPoolPartition, 0)
           THEN /\ aborted' = TRUE
                /\ UNCHANGED <<pool_pc, pool>>
           ELSE LET dram_first == FirstBlock(dram).address
                    dram_end   == GetEndAddress(LastBlock(dram))
                    kernel_dram_start == FindFirstDerivedBlock(phys_tree, KMemoryRegionType_DramKernel).address
                    pool_partitions_start ==
                        FindFirstBlockByTypeAttr(phys_tree, KMemoryRegionType_DramPoolPartition, 0).address
                    application_pool_start == ApplicationPoolStart(dram_end, application_pool_size)
                    applet_pool_start == AppletPoolStart(application_pool_start, applet_pool_size)
                    unsafe_system_pool_start ==
                        UnsafeSystemPoolStart(kernel_dram_start, applet_pool_start,
                                              unsafe_system_pool_min_size)
                IN  /\ pool' = [NoPool EXCEPT
                                  !.application_pool_size = application_pool_size,
                                  !.applet_pool_size = applet_pool_size,
                                  !.unsafe_system_pool_min_size = unsafe_system_pool_min_size,
                                  !.dram_first = dram_first,
                                  !.dram_end = dram_end,
                                  !.kernel_dram_start = kernel_dram_start,
                                  !.pool_partitions_start = pool_partitions_start,
                                  !.application_pool_start = application_pool_start,
                                  !.applet_pool_start = applet_pool_start,
                                  !.unsafe_system_pool_start = unsafe_system_pool_start,
                                  !.unsafe_system_pool_size =
                                      Wrap(applet_pool_start - unsafe_system_pool_start),
                                  !.dram_midpoint = DramMidpoint(dram_first, dram_end)]
                    /\ pool_pc' = "application"
                    /\ UNCHANGED aborted

\* Lines 251-257: the application pool, or the first half of it.
InsertApplicationPool ==
    /\ pool_pc = "application"
    /\ LET single == SingleApplicationPool(pool.dram_end, pool.dram_midpoint,
                                           pool.application_pool_start)
           size   == IF single THEN pool.application_pool_size
                     ELSE Wrap(pool.dram_midpoint - pool.application_pool_start)
           r      == InsertPoolPartitionBlockIntoBothTrees(
                         phys_tree, tree, num_blocks, pool.application_pool_start, size,
                         KMemoryRegionType_DramApplicationPool,
                         KMemoryRegionType_VirtualDramApplicationPool, pool.cur_pool_attr)
       IN  PoolStep(r,
                    PoolCall(pool.application_pool_start, size,
                             KMemoryRegionType_DramApplicationPool,
                             KMemoryRegionType_VirtualDramApplicationPool, r.attr),
                    IF single THEN "applet" ELSE "application2",
                    [pool EXCEPT !.cur_pool_attr = r.cur_attr,
                                 !.total_overhead_size =
                                     IF single
                                     THEN Wrap(@ + CalculateMetadataOverheadSize(size))
                                     ELSE @])

\* Lines 258-260: the second half, and the overhead of each half.
InsertSecondApplicationPool ==
    /\ pool_pc = "application2"
    /\ LET first  == Wrap(pool.dram_midpoint - pool.application_pool_start)
           second == Wrap(pool.application_pool_start + pool.application_pool_size
                          - pool.dram_midpoint)
           r      == InsertPoolPartitionBlockIntoBothTrees(
                         phys_tree, tree, num_blocks, pool.dram_midpoint, second,
                         KMemoryRegionType_DramApplicationPool,
                         KMemoryRegionType_VirtualDramApplicationPool, pool.cur_pool_attr)
       IN  PoolStep(r,
                    PoolCall(pool.dram_midpoint, second,
                             KMemoryRegionType_DramApplicationPool,
                             KMemoryRegionType_VirtualDramApplicationPool, r.attr),
                    "applet",
                    [pool EXCEPT !.cur_pool_attr = r.cur_attr,
                                 !.total_overhead_size =
                                     Wrap(@ + CalculateMetadataOverheadSize(first)
                                            + CalculateMetadataOverheadSize(second))])

\* Lines 264-265.
InsertAppletPool ==
    /\ pool_pc = "applet"
    /\ LET r == InsertPoolPartitionBlockIntoBothTrees(
                    phys_tree, tree, num_blocks, pool.applet_pool_start, pool.applet_pool_size,
                    KMemoryRegionType_DramAppletPool,
                    KMemoryRegionType_VirtualDramAppletPool, pool.cur_pool_attr)
       IN  PoolStep(r,
                    PoolCall(pool.applet_pool_start, pool.applet_pool_size,
                             KMemoryRegionType_DramAppletPool,
                             KMemoryRegionType_VirtualDramAppletPool, r.attr),
                    "unsafe",
                    [pool EXCEPT !.cur_pool_attr = r.cur_attr,
                                 !.total_overhead_size =
                                     Wrap(@ + CalculateMetadataOverheadSize(pool.applet_pool_size))])

\* Lines 268-269.
InsertSystemNonSecurePool ==
    /\ pool_pc = "unsafe"
    /\ LET r == InsertPoolPartitionBlockIntoBothTrees(
                    phys_tree, tree, num_blocks, pool.unsafe_system_pool_start,
                    pool.unsafe_system_pool_size,
                    KMemoryRegionType_DramSystemNonSecurePool,
                    KMemoryRegionType_VirtualDramSystemNonSecurePool, pool.cur_pool_attr)
       IN  PoolStep(r,
                    PoolCall(pool.unsafe_system_pool_start, pool.unsafe_system_pool_size,
                             KMemoryRegionType_DramSystemNonSecurePool,
                             KMemoryRegionType_VirtualDramSystemNonSecurePool, r.attr),
                    "metadata",
                    [pool EXCEPT !.cur_pool_attr = r.cur_attr,
                                 !.total_overhead_size =
                                     Wrap(@ + CalculateMetadataOverheadSize(
                                                  pool.unsafe_system_pool_size))])

\* Lines 272-276: the metadata pool, tagged from metadata_pool_attr = 0, a counter
\* of its own.
InsertMetadataPool ==
    /\ pool_pc = "metadata"
    /\ LET total == Wrap(pool.total_overhead_size
                         + CalculateMetadataOverheadSize(
                               Wrap(Wrap(pool.unsafe_system_pool_start
                                         - pool.pool_partitions_start)
                                    - pool.total_overhead_size)))
           metadata_pool_start == Wrap(pool.unsafe_system_pool_start - total)
           metadata_pool_attr  == 0
           r == InsertPoolPartitionBlockIntoBothTrees(
                    phys_tree, tree, num_blocks, metadata_pool_start, total,
                    KMemoryRegionType_DramMetadataPool,
                    KMemoryRegionType_VirtualDramMetadataPool, metadata_pool_attr)
       IN  PoolStep(r,
                    PoolCall(metadata_pool_start, total,
                             KMemoryRegionType_DramMetadataPool,
                             KMemoryRegionType_VirtualDramMetadataPool, r.attr),
                    "system",
                    [pool EXCEPT !.total_overhead_size = total,
                                 !.metadata_pool_start = metadata_pool_start,
                                 !.metadata_pool_size = total])

\* Lines 279-280.
InsertSystemPool ==
    /\ pool_pc = "system"
    /\ LET system_pool_size == SystemPoolSize(pool.metadata_pool_start,
                                              pool.pool_partitions_start)
           r == InsertPoolPartitionBlockIntoBothTrees(
                    phys_tree, tree, num_blocks, pool.pool_partitions_start, system_pool_size,
                    KMemoryRegionType_DramSystemPool,
                    KMemoryRegionType_VirtualDramSystemPool, pool.cur_pool_attr)
       IN  PoolStep(r,
                    PoolCall(pool.pool_partitions_start, system_pool_size,
                             KMemoryRegionType_DramSystemPool,
                             KMemoryRegionType_VirtualDramSystemPool, r.attr),
                    "done",
                    [pool EXCEPT !.cur_pool_attr = r.cur_attr,
                                 !.system_pool_size = system_pool_size])

----------------------------------------------------------------------------
(* init::GetCoreLocalRegionVirtualAddress and                              *)
(* init::SetupCoreLocalRegionMemoryBlocks. Sizes are scaled: a page is     *)
(* PageSize address values and the 1 GB bound CoreLocalRegionBoundsAlign.  *)

KMemoryRegionType_CoreLocal == {10}

PageSize == 2
NumCores == 2
Cores == 0 .. (NumCores - 1)

CoreLocalRegionAlign == PageSize
CoreLocalRegionSize == PageSize * (1 + NumCores)
CoreLocalRegionSizeWithGuards == CoreLocalRegionSize + 2 * PageSize
CoreLocalRegionBoundsAlign == 16

\* util::AlignUp, in uintptr_t.
AlignUp(value, alignment) == AlignDown(Wrap(value + alignment - 1), alignment)

\* The five checks without the third: a guarded range that crosses a bound is
\* taken.
CoreLocalCandidateExit_NoBounds(t, candidate_start) ==
    LET candidate_end  == Wrap(candidate_start + CoreLocalRegionSizeWithGuards)
        candidate_last == Wrap(candidate_end - 1)
    IN  IF FindContainingBlock(t, candidate_start) = {} THEN "abort"
        ELSE LET containing_block ==
                     CHOOSE b \in FindContainingBlock(t, candidate_start) : TRUE
             IN  IF candidate_last > GetLastAddress(containing_block) THEN "last"
                 ELSE IF containing_block.type # KMemoryRegionType_None THEN "type"
                 ELSE IF containing_block.address
                           > AlignDown(candidate_start, CoreLocalRegionBoundsAlign)
                 THEN "address"
                 ELSE IF Wrap(AlignUp(candidate_last, CoreLocalRegionBoundsAlign) - 1)
                           > GetLastAddress(containing_block)
                 THEN "window"
                 ELSE "return"

\* Lines 153-178: where one turn of GetCoreLocalRegionVirtualAddress's loop ends
\* for the candidate GetRandomAlignedRegion gave: one of the five "continue" or
\* "return". The candidate came out of the tree's own lookup, so its block exists.
CoreLocalCandidateExit(t, candidate_start) ==
    LET candidate_end  == Wrap(candidate_start + CoreLocalRegionSizeWithGuards)
        candidate_last == Wrap(candidate_end - 1)
    IN  IF FindContainingBlock(t, candidate_start) = {} THEN "abort"
        ELSE LET containing_block ==
                     CHOOSE b \in FindContainingBlock(t, candidate_start) : TRUE
             IN  IF candidate_last > GetLastAddress(containing_block) THEN "last"
                 ELSE IF containing_block.type # KMemoryRegionType_None THEN "type"
                 ELSE IF AlignDown(candidate_start, CoreLocalRegionBoundsAlign)
                           # AlignDown(candidate_last, CoreLocalRegionBoundsAlign)
                 THEN "bounds"
                 ELSE IF containing_block.address
                           > AlignDown(candidate_start, CoreLocalRegionBoundsAlign)
                 THEN "address"
                 ELSE IF Wrap(AlignUp(candidate_last, CoreLocalRegionBoundsAlign) - 1)
                           > GetLastAddress(containing_block)
                 THEN "window"
                 ELSE "return"

\* The locals before the call: the arrays are zero-initialised, the page tables
\* are those in memory, keyed by the physical page of their L1 table.
NoCore ==
    [exit |-> "none", core_local_virt_start |-> 0, i |-> 0,
     core_local_region_start_phys |-> [c \in Cores |-> 0],
     core_l1_ttbr1_phys |-> [c \in Cores |-> 0],
     ttbr1_el1 |-> 0, next_free |-> 0,
     page_tables |-> <<>>,
     init_arguments |-> <<>>, stored |-> <<>>]

\* KInitialPageAllocator::Allocate: the next free page; pages are handed out once.
Allocate(next_free) == [page |-> next_free, next_free |-> next_free + PageSize]

\* Pages of lower-level tables a Map takes from the allocator when the table has
\* no mapping yet under the same L1 entry.
MapTablePages == 2

\* KInitialPageTable::Map of one page: table is the mapping of the page table
\* (virtual page -> physical page).
Map(table, next_free, virt_addr, phys_addr) ==
    [table |-> [v \in (DOMAIN table) \cup {virt_addr} |->
                   IF v = virt_addr THEN phys_addr ELSE table[v]],
     next_free |->
         IF \E v \in DOMAIN table : AlignDown(v, CoreLocalRegionBoundsAlign)
                                      = AlignDown(virt_addr, CoreLocalRegionBoundsAlign)
         THEN next_free
         ELSE next_free + MapTablePages * PageSize]

\* Line 214, for the cores j .. NumCores - 1: page j + 1 of the region.
RECURSIVE MapSharedWindow(_, _, _, _)
MapSharedWindow(m, core_local_virt_start, core_l1_ttbr1_phys, j) ==
    IF j >= NumCores THEN m
    ELSE MapSharedWindow(Map(m.table, m.next_free,
                             Wrap(core_local_virt_start + (j + 1) * PageSize),
                             core_l1_ttbr1_phys[j]),
                         core_local_virt_start, core_l1_ttbr1_phys, j + 1)

\* The arguments every core is given the TTBR1 value of core 0 with.
InitArguments_Core0(i) ==
    [core |-> i,
     core_local_region_start_phys |-> core.core_local_region_start_phys[i],
     ttbr1 |-> core.core_l1_ttbr1_phys[0]]

\* Line 218: SetInitArguments(i, core_local_region_start_phys[i],
\* core_l1_ttbr1_phys[i]).
InitArguments(i) ==
    [core |-> i,
     core_local_region_start_phys |-> core.core_local_region_start_phys[i],
     ttbr1 |-> core.core_l1_ttbr1_phys[i]]

\* Line 152: one more turn of GetCoreLocalRegionVirtualAddress's loop asks the
\* virtual tree for a random region of the guarded size.
DrawCoreLocalCandidate ==
    /\ core_pc = "start"
    /\ pc = "idle"
    /\ ~aborted
    /\ GetRandomAlignedRegion(CoreLocalRegionSizeWithGuards, CoreLocalRegionAlign,
                              KMemoryRegionType_None)
    /\ core_pc' = "search"
    /\ UNCHANGED <<core, build_vars, other_vars, pool_vars>>

\* Lines 153-178: the checks on the candidate; a "continue" goes back to line 152.
GetCoreLocalRegionVirtualAddress ==
    /\ core_pc = "search"
    /\ pc = "idle"
    /\ ~aborted
    /\ last.op = "GetRandomAlignedRegion" /\ last.exit = "return"
    /\ UNCHANGED <<tree, num_blocks, pc, frame, last, build_vars, other_vars, pool_vars>>
    /\ LET candidate_start == last.value
           exit == CoreLocalCandidateExit(tree, candidate_start)
       IN  CASE exit = "return" ->
                  /\ core' = [core EXCEPT
                                !.exit = exit,
                                !.core_local_virt_start = Wrap(candidate_start + PageSize)]
                  /\ core_pc' = "insert"
                  /\ UNCHANGED aborted
             [] exit = "abort" ->
                  /\ aborted' = TRUE
                  /\ UNCHANGED <<core_pc, core>>
             [] OTHER ->
                  /\ core' = [core EXCEPT !.exit = exit]
                  /\ core_pc' = "start"
                  /\ UNCHANGED aborted

\* Line 193: the CoreLocal block goes into the virtual tree, or boot aborts.
InsertCoreLocalBlock ==
    /\ core_pc = "insert"
    /\ ~aborted
    /\ UNCHANGED <<pc, frame, last, build_vars, other_vars, pool_vars>>
    /\ LET r == TreeInsert(tree, num_blocks, core.core_local_virt_start,
                           CoreLocalRegionSize, KMemoryRegionType_CoreLocal, 0)
       IN  /\ tree' = r.tree
           /\ num_blocks' = r.num_blocks
           /\ IF r.outcome = "true"
              THEN /\ core_pc' = "allocate"
                   /\ core' = [core EXCEPT !.i = 0]
                   /\ UNCHANGED aborted
              ELSE /\ aborted' = TRUE
                   /\ UNCHANGED <<core_pc, core>>

\* Lines 196-199, one turn: a page for core i.
AllocateCoreLocalPage ==
    /\ core_pc = "allocate"
    /\ ~aborted
    /\ UNCHANGED <<tree_vars, build_vars, other_vars, pool_vars>>
    /\ LET a == Allocate(core.next_free)
           i == core.i
       IN  /\ core' = [core EXCEPT
                         !.core_local_region_start_phys[i] = a.page,
                         !.next_free = a.next_free,
                         !.i = IF i + 1 < NumCores THEN i + 1 ELSE 0]
           /\ core_pc' = IF i + 1 < NumCores THEN "allocate" ELSE "l1"

\* Lines 202-207, one turn: core 0 keeps the table TTBR1_EL1 points to, every
\* other core is given a page holding a copy of it.
AllocateL1PageTable ==
    /\ core_pc = "l1"
    /\ ~aborted
    /\ UNCHANGED <<tree_vars, build_vars, other_vars, pool_vars>>
    /\ LET i == core.i
           next_i == IF i + 1 < NumCores THEN i + 1 ELSE 0
       IN  /\ IF i = 0
              THEN core' = [core EXCEPT
                              !.core_l1_ttbr1_phys[0] = AlignDown(core.ttbr1_el1, PageSize),
                              !.i = next_i]
              ELSE LET a == Allocate(core.next_free)
                   IN  core' = [core EXCEPT
                                  !.core_l1_ttbr1_phys[i] = a.page,
                                  !.next_free = a.next_free,
                                  !.page_tables =
                                      [p \in (DOMAIN core.page_tables) \cup {a.page} |->
                                         IF p = a.page
                                         THEN core.page_tables[core.core_l1_ttbr1_phys[0]]
                                         ELSE core.page_tables[p]],
                                  !.i = next_i]
           /\ core_pc' = IF i + 1 < NumCores THEN "l1" ELSE "map"

\* Lines 210-219, one turn: core i's table maps the region's first page and the
\* NumCores pages after it, and core i's InitArguments are set.
MapCoreLocalRegion ==
    /\ core_pc = "map"
    /\ ~aborted
    /\ UNCHANGED <<tree_vars, build_vars, other_vars, pool_vars>>
    /\ LET i  == core.i
           l1 == core.core_l1_ttbr1_phys[i]
           m0 == Map(core.page_tables[l1], core.next_free,
                     core.core_local_virt_start, core.core_l1_ttbr1_phys[i])
           m  == MapSharedWindow(m0, core.core_local_virt_start,
                                 core.core_l1_ttbr1_phys, 0)
       IN  /\ core' = [core EXCEPT
                         !.page_tables[l1] = m.table,
                         !.next_free = m.next_free,
                         !.init_arguments = Append(@, InitArguments(i)),
                         !.i = IF i + 1 < NumCores THEN i + 1 ELSE 0]
           /\ core_pc' = IF i + 1 < NumCores THEN "map" ELSE "store"

\* Line 222: StoreInitArguments flushes what SetInitArguments has recorded.
StoreInitArguments ==
    /\ core_pc = "store"
    /\ ~aborted
    /\ UNCHANGED <<tree_vars, build_vars, other_vars, pool_vars>>
    /\ core' = [core EXCEPT !.stored = Append(@, core.init_arguments)]
    /\ core_pc' = "done"

----------------------------------------------------------------------------
(* KMemoryLayout::InitializeLinearMemoryBlockTrees *)

KMemoryRegionAttr_LinearMapped == 20

\* KMemoryBlock::HasTypeAttribute: the attribute's bit is set in the type id.
HasTypeAttribute(b, attr) == attr \in b.type

\* The n-th block of t in the order of the tree, that of the addresses.
NthBlock(t, n) == CHOOSE b \in t : Cardinality({c \in t : c.address < b.address}) = n - 1

\* The copy with the attributes left out.
LinearCopy_NoAttributes(block) ==
    KMemoryBlock(block.address, block.size, UintMax, 0, block.type)

\* Create(address, size, attributes, type): the block of the four-argument
\* constructor, which has no pair address.
LinearCopy(block) ==
    KMemoryBlock(block.address, block.size, UintMax, block.attr, block.type)

\* The second difference taken the same way round as the first.
LinearVirtToPhysDiff_SameWay(aligned_linear_phys_start, linear_virtual_start) ==
    Wrap(linear_virtual_start - aligned_linear_phys_start)

\* Line 115.
LinearPhysToVirtDiff(aligned_linear_phys_start, linear_virtual_start) ==
    Wrap(linear_virtual_start - aligned_linear_phys_start)

\* Line 116.
LinearVirtToPhysDiff(aligned_linear_phys_start, linear_virtual_start) ==
    Wrap(aligned_linear_phys_start - linear_virtual_start)

NoLinear ==
    [pc |-> "none", aligned_linear_phys_start |-> 0, linear_virtual_start |-> 0,
     s_linear_phys_to_virt_diff |-> 0, s_linear_virt_to_phys_diff |-> 0,
     physical_linear_tree |-> {}, virtual_linear_tree |-> {},
     visited |-> 0, inserts |-> 0]

\* Where the function goes once `visited` blocks of the tree it walks are behind it.
AfterPhysicalBlock(visited) ==
    IF visited < Cardinality(phys_tree) THEN "physical"
    ELSE IF tree # {} THEN "virtual"
    ELSE "done"

AfterVirtualBlock(visited) ==
    IF visited < Cardinality(tree) THEN "virtual" ELSE "done"

\* Lines 113-116: the two static differences.
InitializeLinearMemoryBlockTrees(aligned_linear_phys_start, linear_virtual_start) ==
    /\ linear.pc = "start"
    /\ ~aborted
    /\ linear' = [linear EXCEPT
                    !.aligned_linear_phys_start = aligned_linear_phys_start,
                    !.linear_virtual_start = linear_virtual_start,
                    !.s_linear_phys_to_virt_diff =
                        LinearPhysToVirtDiff(aligned_linear_phys_start, linear_virtual_start),
                    !.s_linear_virt_to_phys_diff =
                        LinearVirtToPhysDiff(aligned_linear_phys_start, linear_virtual_start),
                    !.visited = 0,
                    !.pc = AfterPhysicalBlock(0)]
    /\ UNCHANGED <<tree_vars, build_vars, pool_vars, core_vars, storage, lib_vars>>

\* Lines 119-124, one turn: the next block of the physical tree, copied into the
\* physical linear tree if it is linearly mapped.
CopyPhysicalLinearBlock ==
    /\ linear.pc = "physical"
    /\ ~aborted
    /\ UNCHANGED <<tree, pc, frame, last, build_vars, pool_vars, core_vars, storage, lib_vars>>
    /\ LET block == NthBlock(phys_tree, linear.visited + 1)
       IN  IF ~HasTypeAttribute(block, KMemoryRegionAttr_LinearMapped)
           THEN /\ linear' = [linear EXCEPT !.visited = IF AfterPhysicalBlock(@ + 1) = "physical"
                                                        THEN @ + 1 ELSE 0,
                                            !.pc = AfterPhysicalBlock(linear.visited + 1)]
                /\ UNCHANGED <<num_blocks, aborted>>
           ELSE IF AllocatorFull(num_blocks)
           THEN /\ aborted' = TRUE
                /\ UNCHANGED <<num_blocks, linear>>
           ELSE /\ num_blocks' = num_blocks + 1
                /\ linear' = [linear EXCEPT
                                !.physical_linear_tree = @ \cup {LinearCopy(block)},
                                !.visited = IF AfterPhysicalBlock(@ + 1) = "physical"
                                            THEN @ + 1 ELSE 0,
                                !.pc = AfterPhysicalBlock(linear.visited + 1)]
                /\ UNCHANGED aborted

\* Lines 126-131, one turn: the next block of the virtual tree, copied into the
\* virtual linear tree if it derives from the DRAM type.
CopyVirtualLinearBlock ==
    /\ linear.pc = "virtual"
    /\ ~aborted
    /\ UNCHANGED <<tree, pc, frame, last, build_vars, pool_vars, core_vars, storage, lib_vars>>
    /\ LET block == NthBlock(tree, linear.visited + 1)
       IN  IF ~IsDerivedFrom(block.type, KMemoryRegionType_Dram)
           THEN /\ linear' = [linear EXCEPT !.visited = IF AfterVirtualBlock(@ + 1) = "virtual"
                                                        THEN @ + 1 ELSE 0,
                                            !.pc = AfterVirtualBlock(linear.visited + 1)]
                /\ UNCHANGED <<num_blocks, aborted>>
           ELSE IF AllocatorFull(num_blocks)
           THEN /\ aborted' = TRUE
                /\ UNCHANGED <<num_blocks, linear>>
           ELSE /\ num_blocks' = num_blocks + 1
                /\ linear' = [linear EXCEPT
                                !.virtual_linear_tree = @ \cup {LinearCopy(block)},
                                !.visited = IF AfterVirtualBlock(@ + 1) = "virtual"
                                            THEN @ + 1 ELSE 0,
                                !.pc = AfterVirtualBlock(linear.visited + 1)]
                /\ UNCHANGED aborted

----------------------------------------------------------------------------
(* os::SemaphoreType (InitializeSemaphore, AcquireSemaphore,               *)
(* TryAcquireSemaphore, TimedAcquireSemaphore, ReleaseSemaphore). A thread  *)
(* is "idle" outside a call, at "lock" before it owns cs_sema, "locked"     *)
(* while it owns it, at "wait" inside cv_not_zero's Wait or TimedWait, and  *)
(* "woken" once signalled or timed out, before it owns cs_sema again.       *)

SemaThreads == 3
SemaMaxCount == 2

Threads == 1 .. SemaThreads
NoOwner == 0

NoSemaphore == [state |-> "NotInitialized", count |-> 0, max_count |-> 0, owner |-> NoOwner]

NoThreads == <<>>

IdleThread == [pc |-> "idle", op |-> "none", count |-> 0, timed_out |-> FALSE, result |-> "none"]

SemaphoreOps == {"AcquireSemaphore", "TryAcquireSemaphore", "TimedAcquireSemaphore",
                 "ReleaseSemaphore", "ReleaseSemaphoreCount"}

\* The threads inside cv_not_zero's Wait or TimedWait.
Waiters == {t \in Threads : thread[t].pc = "wait"}

\* The test never finding the count at zero.
CountIsZero_Never(count) == FALSE

\* sema->count == 0
CountIsZero(count) == count = 0

\* Lines 202-219: the asserted arguments, the count and the bound.
InitializeSemaphore(count, max_count) ==
    [state |-> "Initialized", count |-> count, max_count |-> max_count, owner |-> NoOwner]

\* A thread enters one of the calls.
CallSemaphore(t) ==
    /\ thread[t].pc = "idle"
    /\ \E op \in SemaphoreOps, count \in 1 .. SemaMaxCount :
          thread' = [thread EXCEPT ![t] =
                       [IdleThread EXCEPT !.pc = "lock", !.op = op,
                                          !.count = IF op = "ReleaseSemaphoreCount"
                                                    THEN count ELSE 1]]
    /\ UNCHANGED sema

\* std::scoped_lock lk(cs_sema), and the lock taken again on the way out of Wait.
LockSemaphore(t) ==
    /\ thread[t].pc \in {"lock", "woken"}
    /\ sema.owner = NoOwner
    /\ sema' = [sema EXCEPT !.owner = t]
    /\ thread' = [thread EXCEPT ![t].pc = "locked"]

\* The thread outside the call again: the call it made and its return value are
\* all that is left.
ThreadReturned(th, result) == [IdleThread EXCEPT !.op = th.op, !.result = result]

\* The scope of the lock left with a return value.
ReturnFromSemaphore(t, count, result) ==
    /\ sema' = [sema EXCEPT !.count = count, !.owner = NoOwner]
    /\ thread' = [thread EXCEPT ![t] = ThreadReturned(thread[t], result)]

\* Lines 237-249: one test of the while loop, then Wait or the decrement.
AcquireSemaphore(t) ==
    /\ thread[t].pc = "locked" /\ thread[t].op = "AcquireSemaphore"
    /\ IF CountIsZero(sema.count)
       THEN /\ sema' = [sema EXCEPT !.owner = NoOwner]
            /\ thread' = [thread EXCEPT ![t].pc = "wait"]
       ELSE ReturnFromSemaphore(t, sema.count - 1, "void")

\* Lines 251-265.
TryAcquireSemaphore(t) ==
    /\ thread[t].pc = "locked" /\ thread[t].op = "TryAcquireSemaphore"
    /\ IF CountIsZero(sema.count)
       THEN ReturnFromSemaphore(t, sema.count, "false")
       ELSE ReturnFromSemaphore(t, sema.count - 1, "true")

\* Lines 267-286: one test of the while loop; with the count at zero the timeout
\* has run out (now, or before) and the call returns false, or it has not and the
\* call goes into TimedWait.
TimedAcquireSemaphore(t) ==
    /\ thread[t].pc = "locked" /\ thread[t].op = "TimedAcquireSemaphore"
    /\ IF CountIsZero(sema.count)
       THEN \/ /\ sema' = [sema EXCEPT !.owner = NoOwner]
               /\ thread' = [thread EXCEPT ![t] = ThreadReturned(thread[t], "false")]
            \/ /\ ~thread[t].timed_out
               /\ sema' = [sema EXCEPT !.owner = NoOwner]
               /\ thread' = [thread EXCEPT ![t].pc = "wait"]
       ELSE ReturnFromSemaphore(t, sema.count - 1, "true")

\* TimedWait returns because the timeout has run out.
TimedWaitTimeout(t) ==
    /\ thread[t].pc = "wait" /\ thread[t].op = "TimedAcquireSemaphore"
    /\ thread' = [thread EXCEPT ![t].pc = "woken", ![t].timed_out = TRUE]
    /\ UNCHANGED sema

\* cv_not_zero.Signal(): one of the threads waiting, if any, is woken.
Signal(threads, woken) ==
    IF woken = NoOwner THEN threads ELSE [threads EXCEPT ![woken].pc = "woken"]

\* Lines 288-316, both overloads: the assertion on the bound, the count raised, one
\* Signal. A failed assertion ends the program.
ReleaseSemaphore(t) ==
    /\ thread[t].pc = "locked"
    /\ thread[t].op \in {"ReleaseSemaphore", "ReleaseSemaphoreCount"}
    /\ IF sema.count + thread[t].count > sema.max_count
       THEN /\ aborted' = TRUE
            /\ UNCHANGED <<sema, thread>>
       ELSE /\ \E woken \in IF Waiters = {} THEN {NoOwner} ELSE Waiters :
                  thread' = [Signal(thread, woken) EXCEPT
                               ![t] = ThreadReturned(thread[t], "void")]
            /\ sema' = [sema EXCEPT !.count = @ + thread[t].count, !.owner = NoOwner]
            /\ UNCHANGED aborted

----------------------------------------------------------------------------
(* fssystem::PooledBuffer on the buddy heap g_heap. Sizes and addresses are  *)
(* in bytes, addresses relative to g_heap_buffer. A free block of the heap   *)
(* is [address, order]; its size is GetBytesFromOrder(order).                *)

HeapBlockSize == 2
HeapOrderTrim == 1
HeapOrderMax == 3
HeapOrderMaxForLarge == HeapOrderMax + 1

nullptr == -1

MaxBuffers == 2
MaxRetryCount == 1
MaxReduceCount == 1

Buffers == 1 .. MaxBuffers

GetBytesFromOrder(order) == HeapBlockSize * 2^order

HeapAllocatableSizeTrim == GetBytesFromOrder(HeapOrderTrim)
HeapAllocatableSizeMax == GetBytesFromOrder(HeapOrderMax)
HeapAllocatableSizeMaxForLarge == GetBytesFromOrder(HeapOrderMaxForLarge)

\* Line 94, without the choice on large.
GetAllocatableSizeMaxCore_Small(large) == HeapAllocatableSizeMax

\* Lines 93-95.
GetAllocatableSizeMaxCore(large) ==
    IF large THEN HeapAllocatableSizeMaxForLarge ELSE HeapAllocatableSizeMax

HeapOrders == 0 .. HeapOrderMaxForLarge

PowersOfTwo == {2^k : k \in 0 .. HeapOrderMaxForLarge + 2}

\* util::LeastSignificantOneBit, for x > 0.
LeastSignificantOneBit(x) == CHOOSE p \in PowersOfTwo : x % p = 0 /\ (x \div p) % 2 = 1

\* util::FloorPowerOfTwo, for x > 0.
FloorPowerOfTwo(x) == CHOOSE p \in PowersOfTwo : p <= x /\ x < 2 * p

\* The smallest order whose blocks hold `size` bytes.
GetOrderFromBytes(size) ==
    CHOOSE order \in 0 .. HeapOrderMaxForLarge + 2 :
        /\ GetBytesFromOrder(order) >= size
        /\ \A lower \in 0 .. order - 1 : GetBytesFromOrder(lower) < size

\* The free blocks of a heap over [address, address + size): the largest blocks
\* first.
RECURSIVE HeapInitialize(_, _)
HeapInitialize(address, size) ==
    IF size < HeapBlockSize
    THEN {}
    ELSE LET order == CHOOSE o \in HeapOrders :
                          /\ GetBytesFromOrder(o) <= size
                          /\ o < HeapOrderMaxForLarge => GetBytesFromOrder(o + 1) > size
         IN  {[address |-> address, order |-> order]}
                 \cup HeapInitialize(address + GetBytesFromOrder(order),
                                     size - GetBytesFromOrder(order))

\* The size of the largest free block, 0 without any.
GetAllocatableSizeMax(free) ==
    IF free = {} THEN 0
    ELSE GetBytesFromOrder(CHOOSE o \in HeapOrders :
                               /\ \E blk \in free : blk.order = o
                               /\ \A blk \in free : blk.order <= o)

RECURSIVE FreeSizeBelow(_, _)
FreeSizeBelow(free, order) ==
    IF order < 0 THEN 0
    ELSE Cardinality({blk \in free : blk.order = order}) * GetBytesFromOrder(order)
             + FreeSizeBelow(free, order - 1)

GetTotalFreeSize(free) == FreeSizeBelow(free, HeapOrderMaxForLarge)

\* The free blocks AllocateByOrder may take: those of the smallest order that is
\* enough.
AllocateCandidates(free, order) ==
    {blk \in free : /\ blk.order >= order
                    /\ \A other \in free : other.order >= order => other.order >= blk.order}

\* The block taken is cut down to `order`: the low part is handed out, the upper
\* halves stay free.
DivideBuddies(free, blk, order) ==
    (free \ {blk})
        \cup {[address |-> blk.address + GetBytesFromOrder(o), order |-> o] :
                  o \in order .. blk.order - 1}

BuddyAddress(address, order) ==
    IF (address \div GetBytesFromOrder(order)) % 2 = 0
    THEN address + GetBytesFromOrder(order)
    ELSE address - GetBytesFromOrder(order)

\* A block given back joins its buddy as long as the buddy is free.
RECURSIVE Free(_, _, _)
Free(free, address, order) ==
    LET buddy == [address |-> BuddyAddress(address, order), order |-> order]
    IN  IF order < HeapOrderMaxForLarge /\ buddy \in free
        THEN Free(free \ {buddy}, Min(address, buddy.address), order + 1)
        ELSE free \cup {[address |-> address, order |-> order]}

NoHeap ==
    [free |-> {}, size |-> 0, owner |-> NoOwner, g_retry_count |-> 0,
     g_reduce_allocation_count |-> 0, g_heap_free_size_peak |-> 0]

NoBuffers == <<>>

EmptyBuffer ==
    [pc |-> "idle", m_buffer |-> nullptr, m_size |-> 0,
     ideal_size |-> 0, required_size |-> 0, large |-> FALSE, target_size |-> 0,
     taken |-> 0, max_at_allocation |-> 0,
     shrink_ideal |-> 0, new_size |-> 0, size_before |-> 0, chunks |-> <<>>,
     ret |-> "idle"]

\* The object outside any call: m_buffer and m_size are all that is left.
Returned(buf) == [EmptyBuffer EXCEPT !.m_buffer = buf.m_buffer, !.m_size = buf.m_size]

\* Lines 200-214.
InitializeBufferPool(size) ==
    [NoHeap EXCEPT !.free = HeapInitialize(0, size), !.size = size,
                   !.g_heap_free_size_peak = size]

\* Line 106.
TargetSize(ideal_size, required_size, large) ==
    Min(IF ideal_size > required_size THEN ideal_size ELSE required_size,
        GetAllocatableSizeMaxCore(large))

\* Lines 115-118, without the halving.
AllocatableSize_Whole(free) == GetAllocatableSizeMax(free)

\* Lines 115-118.
AllocatableSize(free) ==
    IF GetAllocatableSizeMax(free) > HeapBlockSize
    THEN GetAllocatableSizeMax(free) \div 2
    ELSE GetAllocatableSizeMax(free)

\* Lines 97-106: the asserted preconditions and target_size.
CallAllocateCore(b, ideal_size, required_size, large) ==
    /\ buffer[b].pc = "idle"
    /\ IF buffer[b].m_buffer # nullptr \/ required_size > GetAllocatableSizeMaxCore(large)
       THEN aborted' = TRUE /\ UNCHANGED <<heap, buffer>>
       ELSE /\ buffer' = [buffer EXCEPT ![b] =
                           [@ EXCEPT !.pc = "attempt", !.ideal_size = ideal_size,
                                     !.required_size = required_size, !.large = large,
                                     !.target_size =
                                         TargetSize(ideal_size, required_size, large),
                                     !.ret = "trimmed", !.chunks = <<>>]]
            /\ UNCHANGED <<heap, aborted>>

\* Lines 111-129: one attempt under g_heap_mutex.
TryAllocate(b) ==
    /\ buffer[b].pc = "attempt"
    /\ heap.owner = NoOwner
    /\ LET allocatable_size == AllocatableSize(heap.free)
           order == GetOrderFromBytes(Min(buffer[b].target_size, allocatable_size))
       IN  IF allocatable_size >= buffer[b].required_size
           THEN IF AllocateCandidates(heap.free, order) = {}
                THEN /\ buffer' = [buffer EXCEPT ![b].pc = "check",
                                                 ![b].m_size = GetBytesFromOrder(order)]
                     /\ UNCHANGED heap
                ELSE \E blk \in AllocateCandidates(heap.free, order) :
                        /\ heap' = [heap EXCEPT !.free = DivideBuddies(@, blk, order)]
                        /\ buffer' = [buffer EXCEPT
                                        ![b].pc = "check",
                                        ![b].m_buffer = blk.address,
                                        ![b].m_size = GetBytesFromOrder(order),
                                        ![b].taken = GetBytesFromOrder(order),
                                        ![b].max_at_allocation =
                                            GetAllocatableSizeMax(heap.free)]
           ELSE /\ buffer' = [buffer EXCEPT ![b].pc = "check"]
                /\ UNCHANGED heap

\* Lines 162-171: the entry of Shrink, from `pc`, coming back to `ret`.
EnterShrink(buf, ideal_size, ret) ==
    [buf EXCEPT !.pc = IF buf.m_size > ideal_size THEN "shrink_lock" ELSE "shrink_done",
                !.shrink_ideal = ideal_size,
                !.new_size = AlignUp(ideal_size, HeapBlockSize),
                !.size_before = buf.m_size,
                !.chunks = <<>>,
                !.ret = ret]

\* Lines 132-148: after the attempt, the trim or the sleep and the retry count.
CheckAllocated(b) ==
    /\ buffer[b].pc = "check"
    /\ IF buffer[b].m_buffer # nullptr
       THEN /\ buffer' = [buffer EXCEPT ![b] =
                 IF @.m_size >= @.target_size + HeapAllocatableSizeTrim
                 THEN EnterShrink(@, AlignUp(@.target_size, HeapAllocatableSizeTrim),
                                  "trimmed")
                 ELSE [@ EXCEPT !.pc = "trimmed"]]
            /\ UNCHANGED heap
       ELSE /\ heap.g_retry_count < MaxRetryCount
            /\ heap' = [heap EXCEPT !.g_retry_count = @ + 1]
            /\ buffer' = [buffer EXCEPT ![b].pc = "attempt"]

\* Lines 137-143: the assertion on the size and the count of reduced allocations.
CountReduced(b) ==
    /\ buffer[b].pc = "trimmed"
    /\ IF buffer[b].m_size < buffer[b].required_size
       THEN /\ aborted' = TRUE
            /\ buffer' = [buffer EXCEPT ![b].pc = "assert"]
            /\ UNCHANGED heap
       ELSE /\ buffer[b].m_size < Min(buffer[b].target_size, HeapAllocatableSizeMax)
                   => heap.g_reduce_allocation_count < MaxReduceCount
            /\ heap' = [heap EXCEPT !.g_reduce_allocation_count =
                          IF buffer[b].m_size
                                 < Min(buffer[b].target_size, HeapAllocatableSizeMax)
                          THEN @ + 1 ELSE @]
            /\ buffer' = [buffer EXCEPT ![b].pc = "metrics"]
            /\ UNCHANGED aborted

\* Lines 151-159, and the return of AllocateCore.
UpdateMetrics(b) ==
    /\ buffer[b].pc = "metrics"
    /\ heap.owner = NoOwner
    /\ heap' = [heap EXCEPT !.g_heap_free_size_peak = Min(@, GetTotalFreeSize(heap.free))]
    /\ buffer' = [buffer EXCEPT ![b] = Returned(@)]

\* Lines 162-171: Shrink called on a buffer outside any call.
Shrink(b, ideal_size) ==
    /\ buffer[b].pc = "idle"
    /\ IF \/ ideal_size > GetAllocatableSizeMaxCore(TRUE)
          \/ buffer[b].m_size > ideal_size /\ buffer[b].m_buffer = nullptr
       THEN aborted' = TRUE /\ UNCHANGED <<heap, buffer>>
       ELSE /\ buffer' = [buffer EXCEPT ![b] = EnterShrink(@, ideal_size, "idle")]
            /\ UNCHANGED <<heap, aborted>>

\* Line 175.
LockHeap(b) ==
    /\ buffer[b].pc = "shrink_lock"
    /\ heap.owner = NoOwner
    /\ heap' = [heap EXCEPT !.owner = b]
    /\ buffer' = [buffer EXCEPT ![b].pc = "shrink_loop"]

\* Line 180, with the whole difference in place of its power of two.
FreeSize_WholeTail(m_size, new_size) == m_size - new_size

\* Lines 179-180.
FreeSize(m_size, new_size) ==
    Min(FloorPowerOfTwo(m_size - new_size), LeastSignificantOneBit(m_size))

\* Lines 177-196: one turn of the loop, or its end with the unlock and the pointer
\* set to null at size 0.
ShrinkLoop(b) ==
    /\ buffer[b].pc = "shrink_loop"
    /\ LET m_size == buffer[b].m_size
           free_size == FreeSize(m_size, buffer[b].new_size)
           free_order == GetOrderFromBytes(free_size)
       IN  IF buffer[b].new_size < m_size
           THEN IF free_size % HeapBlockSize # 0 \/ free_size # GetBytesFromOrder(free_order)
                THEN /\ aborted' = TRUE
                     /\ buffer' = [buffer EXCEPT ![b].pc = "assert"]
                     /\ UNCHANGED heap
                ELSE /\ heap' = [heap EXCEPT !.free =
                                   Free(@, buffer[b].m_buffer + m_size - free_size,
                                        free_order)]
                     /\ buffer' = [buffer EXCEPT
                                     ![b].m_size = m_size - free_size,
                                     ![b].chunks = Append(@,
                                         [offset |-> m_size - free_size,
                                          size |-> free_size])]
                     /\ UNCHANGED aborted
           ELSE /\ heap' = [heap EXCEPT !.owner = NoOwner]
                /\ buffer' = [buffer EXCEPT
                                ![b].pc = "shrink_done",
                                ![b].m_buffer = IF m_size = 0 THEN nullptr ELSE @]
                /\ UNCHANGED aborted

\* Line 198: Shrink returns, to its caller in AllocateCore or out of the call.
ReturnFromShrink(b) ==
    /\ buffer[b].pc = "shrink_done"
    /\ buffer' = [buffer EXCEPT ![b] = IF buffer[b].ret = "idle" THEN Returned(buffer[b])
                                        ELSE [buffer[b] EXCEPT !.pc = buffer[b].ret]]
    /\ UNCHANGED heap

\* Lines 250-255.
ClearPooledBufferPeak ==
    /\ heap.owner = NoOwner
    /\ heap.g_retry_count > 0 \/ heap.g_reduce_allocation_count > 0
    /\ heap' = [heap EXCEPT !.g_heap_free_size_peak = GetTotalFreeSize(heap.free),
                            !.g_retry_count = 0,
                            !.g_reduce_allocation_count = 0]
    /\ UNCHANGED buffer

----------------------------------------------------------------------------
(* fs::FileHandleStorage: Read and Write hold m_mutex, GetSize and SetSize   *)
(* do not. GetFileSize asks the file system for the size and then stores it  *)
(* through its out pointer; the two moments are two steps.                   *)

InvalidSize == -1

MaxFileSize == 2
FileThreads == 2

Callers == 1 .. FileThreads
FileSizes == 0 .. MaxFileSize

NoFile == [size |-> 0, m_size |-> InvalidSize, owner |-> NoOwner]

NoCallers == <<>>

IdleCaller == [pc |-> "idle", op |-> "none", offset |-> 0, size |-> 0, got |-> InvalidSize, result |-> "none"]

\* An UpdateSize that asks the file system whatever the cache holds.
NeedsUpdate_Always(m_size) == TRUE

\* Line 106: UpdateSize returns at once unless m_size is InvalidSize.
NeedsUpdate(m_size) == m_size = InvalidSize

\* IStorage::CheckAccessRange(offset, size, m_size).
CheckAccessRange(offset, size, total_size) ==
    offset >= 0 /\ size >= 0 /\ size <= total_size /\ offset <= total_size - size

\* A thread enters Read, Write, GetSize or SetSize.
CallFileHandleStorage(t) ==
    /\ caller[t].pc = "idle"
    /\ \E op \in {"Read", "Write", "GetSize", "SetSize"}, offset \in {0, 1}, size \in FileSizes :
          caller' = [caller EXCEPT ![t] =
                       [IdleCaller EXCEPT
                           !.pc = CASE op \in {"Read", "Write"} -> "lock"
                                    [] op = "GetSize" -> "update"
                                    [] OTHER -> "invalidate",
                           !.op = op,
                           !.offset = IF op \in {"Read", "Write"} THEN offset ELSE 0,
                           !.size = IF op = "GetSize" THEN 0 ELSE size]]
    /\ UNCHANGED file

\* Lines 112-118 (and 131-137): the lock, and the early returns of an empty access.
LockFile(t) ==
    /\ caller[t].pc = "lock"
    /\ file.owner = NoOwner
    /\ IF caller[t].size = 0
       THEN /\ caller' = [caller EXCEPT ![t].pc = "idle", ![t].result = "Success"]
            /\ UNCHANGED file
       ELSE /\ file' = [file EXCEPT !.owner = t]
            /\ caller' = [caller EXCEPT ![t].pc = "update"]

\* Lines 105-108: UpdateSize up to the request to the file system.
UpdateSize(t) ==
    /\ caller[t].pc = "update"
    /\ caller' = [caller EXCEPT
                    ![t].pc = IF ~NeedsUpdate(file.m_size) THEN "updated" ELSE "store",
                    ![t].got = IF ~NeedsUpdate(file.m_size) THEN @ ELSE file.size]
    /\ UNCHANGED file

\* Line 107: GetFileSize stores the size it got in m_size.
StoreSize(t) ==
    /\ caller[t].pc = "store"
    /\ file' = [file EXCEPT !.m_size = caller[t].got]
    /\ caller' = [caller EXCEPT ![t].pc = "updated"]

\* Lines 123-126 (and 142-145): the range check against m_size, the access, the
\* unlock.
AccessFile(t) ==
    /\ caller[t].pc = "updated" /\ caller[t].op \in {"Read", "Write"}
    /\ file' = [file EXCEPT !.owner = NoOwner]
    /\ caller' = [caller EXCEPT
                    ![t].pc = "idle",
                    ![t].result =
                        IF ~CheckAccessRange(caller[t].offset, caller[t].size, file.m_size)
                        THEN "OutOfRange"
                        ELSE IF CheckAccessRange(caller[t].offset, caller[t].size, file.size)
                             THEN "Success" ELSE "FileOutOfRange"]

\* Lines 152-156.
GetSize(t) ==
    /\ caller[t].pc = "updated" /\ caller[t].op = "GetSize"
    /\ caller' = [caller EXCEPT ![t].pc = "idle", ![t].result = "Success",
                                ![t].size = file.m_size]
    /\ UNCHANGED file

\* Line 159.
InvalidateSize(t) ==
    /\ caller[t].pc = "invalidate"
    /\ file' = [file EXCEPT !.m_size = InvalidSize]
    /\ caller' = [caller EXCEPT ![t].pc = "setsize"]

\* Line 160.
SetFileSize(t) ==
    /\ caller[t].pc = "setsize"
    /\ file' = [file EXCEPT !.size = caller[t].size]
    /\ caller' = [caller EXCEPT ![t].pc = "idle", ![t].result = "Success"]

----------------------------------------------------------------------------
(* fs::FileStorage, used by one thread. m_base_file is a file of base_size    *)
(* bytes whose GetSize and SetSize succeed or fail; a failed GetSize leaves   *)
(* its out parameter alone, a failed SetSize leaves the size as it was.       *)

FsSizeMod == 8

\* static_cast<s64>(size) of a size_t.
ToS64(size) == IF size >= FsSizeMod \div 2 THEN size - FsSizeMod ELSE size

NoLastCall ==
    [op |-> "none", offset |-> 0, size |-> 0, buffer_null |-> FALSE, result |-> "none",
     reached_base |-> FALSE, asked_size |-> FALSE, m_size_before |-> InvalidSize]

NoFileStorage ==
    [pc |-> "idle", m_size |-> InvalidSize, base_size |-> 0, new_size |-> 0,
     last |-> NoLastCall]

\* A check of the buffer that lets every pointer through.
BufferIsValid_Always(buffer_null) == TRUE

\* Line 30 (and 47): buffer != nullptr.
BufferIsValid(buffer_null) == ~buffer_null

\* Lines 20-23: the cached size and the result after UpdateSize, for each way the
\* base file's GetSize can end.
FileStorageUpdateSize(m_size, base_size) ==
    IF ~NeedsUpdate(m_size)
    THEN {[m_size |-> m_size, result |-> "Success", asked_size |-> FALSE]}
    ELSE {[m_size |-> base_size, result |-> "Success", asked_size |-> TRUE],
          [m_size |-> m_size, result |-> "GetSizeFailed", asked_size |-> TRUE]}

\* Lines 25-40 (and 42-56): the ways a Read or Write can end.
FileStorageAccessOutcomes(m_size, base_size, offset, buffer_null, size) ==
    IF size = 0
    THEN {[m_size |-> m_size, result |-> "Success", asked_size |-> FALSE,
           reached_base |-> FALSE]}
    ELSE IF ~BufferIsValid(buffer_null)
    THEN {[m_size |-> m_size, result |-> "NullptrArgument", asked_size |-> FALSE,
           reached_base |-> FALSE]}
    ELSE {[m_size |-> u.m_size, asked_size |-> u.asked_size,
           result |-> IF u.result # "Success" THEN u.result
                      ELSE IF ~CheckAccessRange(offset, ToS64(size), u.m_size)
                           THEN "OutOfRange" ELSE "Success",
           reached_base |-> /\ u.result = "Success"
                            /\ CheckAccessRange(offset, ToS64(size), u.m_size)] :
             u \in FileStorageUpdateSize(m_size, base_size)}

FileStorageAccess(op, offset, buffer_null, size) ==
    /\ fstorage.pc = "idle"
    /\ \E o \in FileStorageAccessOutcomes(fstorage.m_size, fstorage.base_size,
                                          offset, buffer_null, size) :
          fstorage' = [fstorage EXCEPT
                         !.m_size = o.m_size,
                         !.last = [op |-> op, offset |-> offset, size |-> size,
                                   buffer_null |-> buffer_null, result |-> o.result,
                                   reached_base |-> o.reached_base,
                                   asked_size |-> o.asked_size,
                                   m_size_before |-> fstorage.m_size]]

\* Lines 25-40.
FileStorageRead(offset, buffer_null, size) ==
    FileStorageAccess("Read", offset, buffer_null, size)

\* Lines 42-56.
FileStorageWrite(offset, buffer_null, size) ==
    FileStorageAccess("Write", offset, buffer_null, size)

\* Lines 62-66.
FileStorageGetSize ==
    /\ fstorage.pc = "idle"
    /\ \E u \in FileStorageUpdateSize(fstorage.m_size, fstorage.base_size) :
          fstorage' = [fstorage EXCEPT
                         !.m_size = u.m_size,
                         !.last = [NoLastCall EXCEPT
                                     !.op = "GetSize", !.result = u.result,
                                     !.size = IF u.result = "Success" THEN u.m_size ELSE 0,
                                     !.asked_size = u.asked_size,
                                     !.m_size_before = fstorage.m_size]]

\* Line 69: SetSize drops the cached size.
FileStorageSetSize(size) ==
    /\ fstorage.pc = "idle"
    /\ fstorage' = [fstorage EXCEPT !.pc = "setsize", !.m_size = InvalidSize,
                                    !.new_size = size,
                                    !.last = [NoLastCall EXCEPT
                                                !.op = "SetSize", !.size = size,
                                                !.m_size_before = fstorage.m_size]]

\* Line 70: m_base_file->SetSize(size), and its result returned.
BaseFileSetSize ==
    /\ fstorage.pc = "setsize"
    /\ \E ok \in BOOLEAN :
          fstorage' = [fstorage EXCEPT
                         !.pc = "idle",
                         !.base_size = IF ok THEN fstorage.new_size ELSE @,
                         !.new_size = 0,
                         !.last.result = IF ok THEN "Success" ELSE "SetSizeFailed",
                         !.last.reached_base = TRUE]

----------------------------------------------------------------------------
(* util::Atomic<T> over std::atomic<T>, T an unsigned integer of AtomicMod   *)
(* values. A memory order is the value of its enumerator; where a function   *)
(* hands it to std::atomic as a T, it is converted as an integer is.         *)

AtomicMod == 8

memory_order_relaxed == 0
memory_order_consume == 1
memory_order_acquire == 2
memory_order_release == 3
memory_order_acq_rel == 4
memory_order_seq_cst == 5

MemoryOrders == memory_order_relaxed .. memory_order_seq_cst
LoadOrders == {memory_order_relaxed, memory_order_consume, memory_order_acquire,
               memory_order_seq_cst}
StoreOrders == {memory_order_relaxed, memory_order_release, memory_order_seq_cst}

AtomicValues == 0 .. AtomicMod - 1

\* The conversion of an integer to T.
ToT(x) == x % AtomicMod

NoAtomicCall == [op |-> "none", order |-> memory_order_seq_cst, arg |-> 0, before |-> 0, ret |-> 0]

NoAtomic == [m_v |-> 0, last |-> NoAtomicCall]

\* Line 145.
AtomicConstruct(v) == [NoAtomic EXCEPT !.m_v = v]

\* Lines 152-154: m_v.load(Order).
AtomicLoad(order) ==
    atomic' = [atomic EXCEPT !.last = [NoAtomicCall EXCEPT
                                         !.op = "Load", !.order = order,
                                         !.before = atomic.m_v, !.ret = atomic.m_v]]

\* Line 158: the value m_v.store is given: Order, as a T, where arg was meant.
StoredValue(order, arg) == ToT(order)

\* Lines 157-159: m_v.store(Order).
AtomicStore(order, arg) ==
    atomic' = [atomic EXCEPT !.m_v = StoredValue(order, arg),
                             !.last = [NoAtomicCall EXCEPT
                                         !.op = "Store", !.order = order, !.arg = arg,
                                         !.before = atomic.m_v]]

\* Line 163: what m_v.exchange(arg, Order) returns.
ExchangedValue(m_v, arg) == m_v

\* Lines 162-164.
AtomicExchange(order, arg) ==
    atomic' = [atomic EXCEPT !.m_v = arg,
                             !.last = [NoAtomicCall EXCEPT
                                         !.op = "Exchange", !.order = order, !.arg = arg,
                                         !.before = atomic.m_v,
                                         !.ret = ExchangedValue(atomic.m_v, arg)]]

\* Lines 147-149: operator=.
AtomicAssign(desired) ==
    atomic' = [atomic EXCEPT !.m_v = desired,
                             !.last = [NoAtomicCall EXCEPT
                                         !.op = "Assign", !.arg = desired,
                                         !.before = atomic.m_v, !.ret = desired]]

\* Lines 172-174: ret is 1 when the exchange took place.
AtomicCompareExchangeStrong(order, expected, desired) ==
    atomic' = [atomic EXCEPT !.m_v = IF @ = expected THEN desired ELSE @,
                             !.last = [NoAtomicCall EXCEPT
                                         !.op = "CompareExchangeStrong", !.order = order,
                                         !.arg = desired, !.before = atomic.m_v,
                                         !.ret = IF atomic.m_v = expected THEN 1 ELSE 0]]

\* Lines 177-182: FetchAdd.
AtomicFetchAdd(arg) ==
    atomic' = [atomic EXCEPT !.m_v = ToT(@ + arg),
                             !.last = [NoAtomicCall EXCEPT
                                         !.op = "FetchAdd", !.arg = arg,
                                         !.before = atomic.m_v, !.ret = atomic.m_v]]

Init ==
    /\ word = AddrMod
    /\ arena = MaxMemoryBlocks
    /\ phys_tree = {}
    /\ pool_pc = "none"
    /\ pool = NoPool
    /\ core_pc = "none"
    /\ core = NoCore
    /\ storage = <<>>
    /\ linear = NoLinear
    /\ sema = NoSemaphore
    /\ thread = NoThreads
    /\ heap = NoHeap
    /\ buffer = NoBuffers
    /\ file = NoFile
    /\ caller = NoCallers
    /\ fstorage = NoFileStorage
    /\ atomic = NoAtomic
    /\ \E p \in InitPairs : tree = {KMemoryBlock(0, SpaceSize, p, 0, InitType)}
    /\ num_blocks \in InitBlocks
    /\ aborted = FALSE
    /\ pc = "idle"
    /\ frame = NoFrame
    /\ last = NoCall

\* Boot is single-threaded: a call starts when none is in progress, and nothing
\* runs after an abort.
Ready == pc = "idle" /\ ~aborted /\ KeysOrdered(tree)

CallInsert ==
    /\ Ready
    /\ UNCHANGED <<build_vars, other_vars, pool_vars, core_vars>>
    /\ \E address \in Addresses, size \in Sizes, type_id \in TypeIds,
          new_attr \in Attrs, old_attr \in Attrs :
           Insert(address, size, type_id, new_attr, old_attr)

CallGetRandomAlignedRegion ==
    /\ Ready
    /\ UNCHANGED <<build_vars, other_vars, pool_vars, core_vars>>
    /\ \E size \in RegionSizes, alignment \in Alignments, type_id \in TypeIds :
           GetRandomAlignedRegion(size, alignment, type_id)

Next ==
    \/ CallInsert
    \/ CallGetRandomAlignedRegion
    \/ RandomLoop

Spec == Init /\ [][Next]_vars

\* A fair random source: every value it can give is given again and again, so a
\* turn of the loop that would leave the loop is eventually taken.
FairSpec ==
    Spec /\ \A r \in 0 .. (AddrMod - 1) :
              WF_vars(RandomTurn(r) /\ UNCHANGED <<build_vars, other_vars, pool_vars, core_vars>>)

----------------------------------------------------------------------------
(* SetupPoolPartitionMemoryBlocks on the trees of a board: physical memory is  *)
(* [0, K) below the kernel (not DRAM, or DRAM kept back), the kernel's DRAM    *)
(* [K, P), the pool partition [P, E) up to the end of DRAM, and nothing above; *)
(* the pool partition is mapped at P + the board's offset in the virtual tree. *)

\* Number of values of uintptr_t / size_t where the setup is checked.
PoolAddrMod == 32
\* Capacity of the block allocator's arena there.
PoolMaxBlocks == 24
\* Highest end of DRAM.
PoolDramEnd == 14
\* Largest pool size KSystemControl asks for (and one larger than DRAM).
PoolMaxSize == 8

PoolKernelStarts == {0, 1, 2}
PoolKernelSizes == {1, 2}
PoolDramEnds == {PoolDramEnd - 1, PoolDramEnd}
PoolVirtualOffsets == {0, 3}
\* Units of the pool partition's top that the virtual tree does not map.
PoolUnmapped == {0, 1}
PoolLowTypes == {KMemoryRegionType_None, KMemoryRegionType_Dram}
PoolArenas == {PoolMaxBlocks, PoolMaxBlocks \div 2}
ApplicationPoolSizes == (1 .. PoolMaxSize) \cup {PoolDramEnd + 1}
AppletPoolSizes == 0 .. 2
MinimumNonSecureSystemPoolSizes == 0 .. 3

PhysicalLayout(K, low_type, P, E, offset) ==
    (IF K > 0 THEN {KMemoryBlock(0, K, PoolAddrMod - 1, 0, low_type)} ELSE {})
    \cup {KMemoryBlock(K, P - K, PoolAddrMod - 1, 0, KMemoryRegionType_DramKernel),
          KMemoryBlock(P, E - P, P + offset, 0, KMemoryRegionType_DramPoolPartition),
          KMemoryBlock(E, PoolAddrMod - E, PoolAddrMod - 1, 0, KMemoryRegionType_None)}

VirtualLayout(P, E, offset) ==
    {KMemoryBlock(0, P + offset, PoolAddrMod - 1, 0, KMemoryRegionType_None),
     KMemoryBlock(P + offset, E - P, P, 0, KMemoryRegionType_VirtualDramPoolPartition),
     KMemoryBlock(E + offset, PoolAddrMod - (E + offset), PoolAddrMod - 1, 0,
                  KMemoryRegionType_None)}

PoolInit ==
    /\ word = PoolAddrMod
    /\ arena \in PoolArenas
    /\ \E K \in PoolKernelStarts, size \in PoolKernelSizes, E \in PoolDramEnds,
          offset \in PoolVirtualOffsets, low_type \in PoolLowTypes,
          unmapped \in PoolUnmapped :
          /\ phys_tree = PhysicalLayout(K, low_type, K + size, E, offset)
          /\ tree = VirtualLayout(K + size, E - unmapped, offset)
    /\ num_blocks = Cardinality(phys_tree) + Cardinality(tree)
    /\ aborted = FALSE
    /\ pc = "idle"
    /\ frame = NoFrame
    /\ last = NoCall
    /\ pool_pc = "start"
    /\ pool = NoPool
    /\ core_pc = "none"
    /\ core = NoCore
    /\ storage = <<>>
    /\ linear = NoLinear
    /\ sema = NoSemaphore
    /\ thread = NoThreads
    /\ heap = NoHeap
    /\ buffer = NoBuffers
    /\ file = NoFile
    /\ caller = NoCallers
    /\ fstorage = NoFileStorage
    /\ atomic = NoAtomic

CallSetupPoolPartitionMemoryBlocks ==
    /\ ~aborted
    /\ \E application_pool_size \in ApplicationPoolSizes,
          applet_pool_size \in AppletPoolSizes,
          unsafe_system_pool_min_size \in MinimumNonSecureSystemPoolSizes :
          SetupPoolPartitionMemoryBlocks(application_pool_size, applet_pool_size,
                                         unsafe_system_pool_min_size)

PoolNext ==
    \/ CallSetupPoolPartitionMemoryBlocks
    \/ ~aborted /\ InsertApplicationPool
    \/ ~aborted /\ InsertSecondApplicationPool
    \/ ~aborted /\ InsertAppletPool
    \/ ~aborted /\ InsertSystemNonSecurePool
    \/ ~aborted /\ InsertMetadataPool
    \/ ~aborted /\ InsertSystemPool

PoolSpec == PoolInit /\ [][PoolNext]_vars

----------------------------------------------------------------------------
(* SetupCoreLocalRegionMemoryBlocks on the virtual tree of a board: memory *)
(* in use, [start, start + size), with None blocks around it.              *)

CoreAddrMod == 48
CoreMaxBlocks == 8

CoreUsedStarts == {0, 8, CoreLocalRegionBoundsAlign, CoreLocalRegionBoundsAlign + 12}
CoreUsedSizes == {0, 4, CoreLocalRegionBoundsAlign}
CoreArenas == {CoreMaxBlocks, 3}
Ttbr1El1Values == {PageSize, PageSize + 1}
FirstFreePages == {2 * PageSize, 4 * PageSize}

CoreVirtualLayout(start, size) ==
    {b \in {KMemoryBlock(0, start, CoreAddrMod - 1, 0, KMemoryRegionType_None),
            KMemoryBlock(start, size, start, 0, KMemoryRegionType_Dram),
            KMemoryBlock(start + size, CoreAddrMod - (start + size), CoreAddrMod - 1, 0,
                         KMemoryRegionType_None)} : b.size > 0}

CoreInit ==
    /\ word = CoreAddrMod
    /\ arena \in CoreArenas
    /\ \E start \in CoreUsedStarts, size \in CoreUsedSizes :
          tree = CoreVirtualLayout(start, size)
    /\ num_blocks = Cardinality(tree)
    /\ aborted = FALSE
    /\ pc = "idle"
    /\ frame = NoFrame
    /\ last = NoCall
    /\ phys_tree = {}
    /\ pool_pc = "none"
    /\ pool = NoPool
    /\ core_pc = "start"
    /\ \E ttbr1_el1 \in Ttbr1El1Values, first_free \in FirstFreePages :
          core = [NoCore EXCEPT
                    !.ttbr1_el1 = ttbr1_el1,
                    !.next_free = first_free,
                    !.page_tables = AlignDown(ttbr1_el1, PageSize) :> <<>>]
    /\ storage = <<>>
    /\ linear = NoLinear
    /\ sema = NoSemaphore
    /\ thread = NoThreads
    /\ heap = NoHeap
    /\ buffer = NoBuffers
    /\ file = NoFile
    /\ caller = NoCallers
    /\ fstorage = NoFileStorage
    /\ atomic = NoAtomic

CoreNext ==
    \/ DrawCoreLocalCandidate
    \/ RandomLoop
    \/ GetCoreLocalRegionVirtualAddress
    \/ InsertCoreLocalBlock
    \/ AllocateCoreLocalPage
    \/ AllocateL1PageTable
    \/ MapCoreLocalRegion
    \/ StoreInitArguments

CoreSpec == CoreInit /\ [][CoreNext]_vars

----------------------------------------------------------------------------
(* Insert with the allocator's slots followed. *)

StorageInit ==
    /\ word = AddrMod
    /\ arena = MaxMemoryBlocks
    /\ phys_tree = {}
    /\ pool_pc = "none"
    /\ pool = NoPool
    /\ core_pc = "none"
    /\ core = NoCore
    /\ linear = NoLinear
    /\ sema = NoSemaphore
    /\ thread = NoThreads
    /\ heap = NoHeap
    /\ buffer = NoBuffers
    /\ file = NoFile
    /\ caller = NoCallers
    /\ fstorage = NoFileStorage
    /\ atomic = NoAtomic
    /\ \E p \in InitPairs : tree = {KMemoryBlock(0, SpaceSize, p, 0, InitType)}
    /\ storage = [slot \in {0} |-> CHOOSE b \in tree : TRUE]
    /\ num_blocks \in InitBlocks
    /\ aborted = FALSE
    /\ pc = "idle"
    /\ frame = NoFrame
    /\ last = NoCall

CallInsertOnStorage ==
    /\ Ready
    /\ UNCHANGED <<build_vars, pool_vars, core_vars, linear, lib_vars>>
    /\ \E address \in Addresses, size \in Sizes, type_id \in TypeIds,
          new_attr \in Attrs, old_attr \in Attrs :
           InsertOnStorage(address, size, type_id, new_attr, old_attr)

StorageNext == CallInsertOnStorage

StorageSpec == StorageInit /\ [][StorageNext]_vars

----------------------------------------------------------------------------
(* InitializeLinearMemoryBlockTrees on the trees of a board, three blocks  *)
(* each, and Insert calls on either tree after it.                         *)

LinAddrMod == 16
LinMaxBlocks == 13
LinMaxInserts == 2

LinPhysicalCuts == <<0, 4, 8, LinAddrMod>>
LinVirtualCuts == <<0, 6, 12, LinAddrMod>>
LinPhysicalTypes ==
    {KMemoryRegionType_Dram,
     KMemoryRegionType_DramPoolPartition \cup {KMemoryRegionAttr_LinearMapped}}
LinVirtualTypes == {KMemoryRegionType_None, KMemoryRegionType_VirtualDramPoolPartition}
LinArenas == {LinMaxBlocks, LinMaxBlocks - 5}
LinPhysStarts == {4, 8}
LinVirtStarts == {0, 12}
LinInsertAddresses == {4, 5}
LinInsertSizes == {2}
LinInsertTypes ==
    {KMemoryRegionType_DramPoolPartition \cup {KMemoryRegionAttr_LinearMapped},
     KMemoryRegionType_VirtualDramSystemPool}

\* Three blocks between the cuts, block n with attribute value n - 1.
LinLayout(cuts, types) ==
    {KMemoryBlock(cuts[n], cuts[n + 1] - cuts[n], UintMax, n - 1, types[n]) : n \in 1 .. 3}

LinearInit ==
    /\ word = LinAddrMod
    /\ arena \in LinArenas
    /\ \E types \in [1 .. 3 -> LinPhysicalTypes] :
          phys_tree = LinLayout(LinPhysicalCuts, types)
    /\ \E types \in [1 .. 3 -> LinVirtualTypes] :
          tree = LinLayout(LinVirtualCuts, types)
    /\ num_blocks = Cardinality(phys_tree) + Cardinality(tree)
    /\ aborted = FALSE
    /\ pc = "idle"
    /\ frame = NoFrame
    /\ last = NoCall
    /\ pool_pc = "none"
    /\ pool = NoPool
    /\ core_pc = "none"
    /\ core = NoCore
    /\ storage = <<>>
    /\ linear = [NoLinear EXCEPT !.pc = "start"]
    /\ sema = NoSemaphore
    /\ thread = NoThreads
    /\ heap = NoHeap
    /\ buffer = NoBuffers
    /\ file = NoFile
    /\ caller = NoCallers
    /\ fstorage = NoFileStorage
    /\ atomic = NoAtomic

CallInitializeLinearMemoryBlockTrees ==
    \E aligned_linear_phys_start \in LinPhysStarts, linear_virtual_start \in LinVirtStarts :
       InitializeLinearMemoryBlockTrees(aligned_linear_phys_start, linear_virtual_start)

\* An Insert on the physical tree once the linear trees are set up.
InsertIntoPhysicalTree ==
    /\ linear.pc = "done"
    /\ ~aborted
    /\ linear.inserts < LinMaxInserts
    /\ UNCHANGED <<tree, pc, frame, build_vars, pool_pc, pool, core_vars, storage, lib_vars>>
    /\ \E address \in LinInsertAddresses, size \in LinInsertSizes,
          type_id \in LinInsertTypes, new_attr \in Attrs, old_attr \in Attrs :
       \E it \in FindContainingBlock(phys_tree, address) :
          LET r == InsertResult(phys_tree, num_blocks, it, address, size, type_id,
                                new_attr, old_attr)
          IN  /\ phys_tree' = r.tree
              /\ num_blocks' = r.num_blocks
              /\ aborted' = (r.outcome = "abort")
              /\ last' = Exited("Insert", r.exit)
              /\ linear' = [linear EXCEPT !.inserts = @ + 1]

\* An Insert on the virtual tree once the linear trees are set up.
InsertIntoVirtualTree ==
    /\ linear.pc = "done"
    /\ ~aborted
    /\ linear.inserts < LinMaxInserts
    /\ UNCHANGED <<pc, frame, build_vars, pool_vars, core_vars, storage, lib_vars>>
    /\ \E address \in LinInsertAddresses, size \in LinInsertSizes,
          type_id \in LinInsertTypes, new_attr \in Attrs, old_attr \in Attrs :
       \E it \in FindContainingBlock(tree, address) :
          LET r == InsertResult(tree, num_blocks, it, address, size, type_id,
                                new_attr, old_attr)
          IN  /\ tree' = r.tree
              /\ num_blocks' = r.num_blocks
              /\ aborted' = (r.outcome = "abort")
              /\ last' = Exited("Insert", r.exit)
              /\ linear' = [linear EXCEPT !.inserts = @ + 1]

LinearNext ==
    \/ CallInitializeLinearMemoryBlockTrees
    \/ CopyPhysicalLinearBlock
    \/ CopyVirtualLinearBlock
    \/ InsertIntoPhysicalTree
    \/ InsertIntoVirtualTree

LinearSpec == LinearInit /\ [][LinearNext]_vars

----------------------------------------------------------------------------
(* Threads on one semaphore. *)

\* The kernel's layout code is not running.
KernelAtRest ==
    /\ arena = MaxMemoryBlocks
    /\ tree = {}
    /\ num_blocks = 0
    /\ aborted = FALSE
    /\ pc = "idle"
    /\ frame = NoFrame
    /\ last = NoCall
    /\ phys_tree = {}
    /\ pool_pc = "none"
    /\ pool = NoPool
    /\ core_pc = "none"
    /\ core = NoCore
    /\ storage = <<>>
    /\ linear = NoLinear

NoSemaphoreUse == sema = NoSemaphore /\ thread = NoThreads

NoBufferUse == heap = NoHeap /\ buffer = NoBuffers

NoFileHandleUse == file = NoFile /\ caller = NoCallers

NoFileStorageUse == fstorage = NoFileStorage

kernel_vars == <<tree_vars, build_vars, pool_vars, core_vars, storage, linear>>

SemaInit ==
    /\ KernelAtRest
    /\ word = AddrMod
    /\ \E max_count \in 1 .. SemaMaxCount : \E count \in 0 .. max_count :
          sema = InitializeSemaphore(count, max_count)
    /\ thread = [t \in Threads |-> IdleThread]
    /\ heap = NoHeap
    /\ buffer = NoBuffers
    /\ file = NoFile
    /\ caller = NoCallers
    /\ fstorage = NoFileStorage
    /\ atomic = NoAtomic

SemaStep(t) ==
    \/ CallSemaphore(t) /\ UNCHANGED aborted
    \/ LockSemaphore(t) /\ UNCHANGED aborted
    \/ AcquireSemaphore(t) /\ UNCHANGED aborted
    \/ TryAcquireSemaphore(t) /\ UNCHANGED aborted
    \/ TimedAcquireSemaphore(t) /\ UNCHANGED aborted
    \/ TimedWaitTimeout(t) /\ UNCHANGED aborted
    \/ ReleaseSemaphore(t)

SemaNext ==
    /\ ~aborted
    /\ \E t \in Threads : SemaStep(t)
    /\ UNCHANGED <<tree, num_blocks, pc, frame, last, build_vars, pool_vars, core_vars,
                   storage, linear, buf_vars, file_vars, fs_vars, atomic_vars>>

SemaSpec == SemaInit /\ [][SemaNext]_vars

----------------------------------------------------------------------------
(* Pooled buffers on one heap. *)

BufAddrMod == 64

BufHeapSizes == {HeapAllocatableSizeMaxForLarge}
BufIdealSizes == {10, HeapAllocatableSizeMaxForLarge + 1}
BufRequiredSizes == {0, 1, HeapAllocatableSizeMax, HeapAllocatableSizeMaxForLarge}
BufShrinkSizes == {0, 5}

BufInit ==
    /\ KernelAtRest
    /\ word = BufAddrMod
    /\ NoSemaphoreUse
    /\ \E size \in BufHeapSizes : heap = InitializeBufferPool(size)
    /\ buffer = [b \in Buffers |-> EmptyBuffer]
    /\ file = NoFile
    /\ caller = NoCallers
    /\ fstorage = NoFileStorage
    /\ atomic = NoAtomic

BufStep(b) ==
    \/ \E ideal_size \in BufIdealSizes, required_size \in BufRequiredSizes,
          large \in BOOLEAN : CallAllocateCore(b, ideal_size, required_size, large)
    \/ TryAllocate(b) /\ UNCHANGED aborted
    \/ CheckAllocated(b) /\ UNCHANGED aborted
    \/ CountReduced(b)
    \/ UpdateMetrics(b) /\ UNCHANGED aborted
    \/ \E ideal_size \in BufShrinkSizes : Shrink(b, ideal_size)
    \/ LockHeap(b) /\ UNCHANGED aborted
    \/ ShrinkLoop(b)
    \/ ReturnFromShrink(b) /\ UNCHANGED aborted

BufNext ==
    /\ ~aborted
    /\ \/ \E b \in Buffers : BufStep(b)
       \/ ClearPooledBufferPeak /\ UNCHANGED aborted
    /\ UNCHANGED <<tree, num_blocks, pc, frame, last, build_vars, pool_vars, core_vars,
                   storage, linear, sema_vars, file_vars, fs_vars, atomic_vars>>

BufSpec == BufInit /\ [][BufNext]_vars

----------------------------------------------------------------------------
(* Threads on one FileHandleStorage. *)

FileInit ==
    /\ KernelAtRest
    /\ word = AddrMod
    /\ NoSemaphoreUse
    /\ NoBufferUse
    /\ \E size \in FileSizes : file = [NoFile EXCEPT !.size = size]
    /\ caller = [t \in Callers |-> IdleCaller]
    /\ fstorage = NoFileStorage
    /\ atomic = NoAtomic

FileStep(t) ==
    \/ CallFileHandleStorage(t)
    \/ LockFile(t)
    \/ UpdateSize(t)
    \/ StoreSize(t)
    \/ AccessFile(t)
    \/ GetSize(t)
    \/ InvalidateSize(t)
    \/ SetFileSize(t)

FileNext ==
    /\ \E t \in Callers : FileStep(t)
    /\ UNCHANGED <<kernel_vars, sema_vars, buf_vars, fs_vars, atomic_vars>>

FileSpec == FileInit /\ [][FileNext]_vars

----------------------------------------------------------------------------
(* One thread on one FileStorage. *)

FsOffsets == {-1, 0, 1, 2, 3}
FsSizes == {0, 1, 2, 3, FsSizeMod - 1}

FsInit ==
    /\ KernelAtRest
    /\ word = AddrMod
    /\ NoSemaphoreUse
    /\ NoBufferUse
    /\ NoFileHandleUse
    /\ \E size \in FileSizes : fstorage = [NoFileStorage EXCEPT !.base_size = size]
    /\ atomic = NoAtomic

FsNext ==
    /\ \/ \E offset \in FsOffsets, buffer_null \in BOOLEAN, size \in FsSizes :
             FileStorageRead(offset, buffer_null, size)
       \/ \E offset \in FsOffsets, buffer_null \in BOOLEAN, size \in FsSizes :
             FileStorageWrite(offset, buffer_null, size)
       \/ FileStorageGetSize
       \/ \E size \in FileSizes : FileStorageSetSize(size)
       \/ BaseFileSetSize
    /\ UNCHANGED <<kernel_vars, sema_vars, buf_vars, file_vars, atomic_vars>>

FsSpec == FsInit /\ [][FsNext]_vars

----------------------------------------------------------------------------
(* Calls on one util::Atomic. *)

AtomicInit ==
    /\ KernelAtRest
    /\ word = AddrMod
    /\ NoSemaphoreUse
    /\ NoBufferUse
    /\ NoFileHandleUse
    /\ NoFileStorageUse
    /\ \E v \in AtomicValues : atomic = AtomicConstruct(v)

AtomicNext ==
    /\ \/ \E order \in LoadOrders : AtomicLoad(order)
       \/ \E order \in StoreOrders, arg \in AtomicValues : AtomicStore(order, arg)
       \/ \E order \in MemoryOrders, arg \in AtomicValues : AtomicExchange(order, arg)
       \/ \E desired \in AtomicValues : AtomicAssign(desired)
       \/ \E order \in MemoryOrders, expected \in AtomicValues, desired \in AtomicValues :
             AtomicCompareExchangeStrong(order, expected, desired)
       \/ \E arg \in AtomicValues : AtomicFetchAdd(arg)
    /\ UNCHANGED <<kernel_vars, sema_vars, buf_vars, file_vars, fs_vars>>

AtomicSpec == AtomicInit /\ [][AtomicNext]_vars

----------------------------------------------------------------------------
(* The calls Insert can be given, and what one of them does to the tree of the *)
(* current state.                                                            *)

Calls ==
    [address : Addresses, size : Sizes, type_id : TypeIds,
     new_attr : Attrs, old_attr : Attrs]

Apply(t, nb, it, c) ==
    InsertResult(t, nb, it, c.address, c.size, c.type_id, c.new_attr, c.old_attr)

\* Every governed address lies in exactly one block, and no block leaves the
\* governed space (plain integer arithmetic: nothing wraps here).
Covers(b, a) == b.address <= a /\ a < b.address + b.size

Tiles(t) ==
    /\ \A b \in t : b.size > 0 /\ b.address + b.size <= SpaceSize
    /\ \A a \in 0 .. (SpaceSize - 1) : Cardinality({b \in t : Covers(b, a)}) = 1

\* [address, address + size) lies inside block it.
Inside(it, c) == it.address <= c.address /\ c.address + c.size <= it.address + it.size

----------------------------------------------------------------------------
\* C1. Coverage invariant: after any sequence of Insert calls with size > 0 that
\* returned (true or false), the blocks are pairwise non-overlapping and their
\* union is exactly the governed address space.
C1_CoverageInvariant == ~aborted => Tiles(tree)

\* C2. A successful Insert on the containing block it = [old_address, old_end) of
\* type T leaves a block [old_address, address) of type T and attributes old_attr
\* iff old_address # address, the block [address, address + size) of the new type
\* and attributes, a block [address + size, old_end) of type T and attributes
\* old_attr iff address + size # old_end, and every other block as it was; and
\* Insert does not return false when the three preconditions hold (it returns
\* true, unless the allocator is exhausted and aborts).
C2_InsertResult ==
    Ready =>
      \A c \in Calls : \A it \in FindContainingBlock(tree, c.address) :
        LET r       == Apply(tree, num_blocks, it, c)
            end     == Wrap(c.address + c.size)
            others  == tree \ {it}
            pieces  == r.tree \ others
            IsBefore(b) == /\ b.address = it.address
                           /\ b.size = c.address - it.address
                           /\ b.type = it.type /\ b.attr = c.old_attr
            IsNew(b)    == /\ b.address = c.address /\ b.size = c.size
                           /\ b.type = c.type_id /\ b.attr = c.new_attr
            IsAfter(b)  == /\ b.address = end
                           /\ b.size = Wrap(it.address + it.size - end)
                           /\ b.type = it.type /\ b.attr = c.old_attr
            needed  == (IF it.address # c.address THEN 1 ELSE 0)
                       + (IF end # Wrap(it.address + it.size) THEN 1 ELSE 0)
        IN  /\ r.outcome = "true" =>
                /\ (\E b \in r.tree : IsBefore(b)) <=> it.address # c.address
                /\ \E b \in r.tree : IsNew(b)
                /\ (\E b \in r.tree : IsAfter(b)) <=> end # Wrap(it.address + it.size)
                /\ others \subseteq r.tree
                /\ \A b \in pieces : IsBefore(b) \/ IsNew(b) \/ IsAfter(b)
            /\ (it.attr = c.old_attr /\ Inside(it, c) /\ CanDerive(it.type, c.type_id)) =>
                \/ r.outcome = "true"
                \/ r.outcome = "abort" /\ num_blocks + needed > arena

\* A successful Insert has split a block in three: a block of the derived type
\* lies strictly inside the governed space.
C2_Witness ==
    /\ last = Exited("Insert", "split")
    /\ Tiles(tree)
    /\ \E b \in tree : b.address > 0 /\ b.address + b.size < SpaceSize /\ b.type = {1, 2}

\* C3. No partial mutation on failure: a call of Insert that returns false leaves
\* the tree's blocks as they were and draws no block from the allocator.
C3_NoPartialMutation ==
    [][(last'.op = "Insert" /\ last'.exit \in {"attr", "fit", "derive"})
         => (tree' = tree /\ num_blocks' = num_blocks)]_vars

\* Insert has returned false on a tree that an earlier Insert has split.
C3_Witness ==
    /\ last.op = "Insert" /\ last.exit = "derive"
    /\ Cardinality(tree) = 3
    /\ ~aborted

\* C4. Containment guard: for every address and size >= 1 of the address width,
\* Insert returns true only if [address, address + size) lies inside the block
\* containing address.
C4_ContainmentGuard ==
    Ready =>
      \A c \in Calls : \A it \in FindContainingBlock(tree, c.address) :
        Apply(tree, num_blocks, it, c).outcome = "true" => Inside(it, c)

\* What an identical second call does after call c, applied on block it of tree t,
\* has returned true: the outcomes it can have, and the trees it can leave.
SecondOutcomes(t, nb, it, c) ==
    LET r == Apply(t, nb, it, c)
    IN  IF FindContainingBlock(r.tree, c.address) = {} THEN {"abort"}
        ELSE {Apply(r.tree, r.num_blocks, it2, c).outcome :
                 it2 \in FindContainingBlock(r.tree, c.address)}

\* C5. Attribute guard: Insert returns false whenever the attributes of the block
\* containing address differ from old_attr; and after a successful
\* Insert(a, s, T, new_attr, old_attr) with new_attr # old_attr, an identical
\* second call returns false.
C5_AttributeGuard ==
    Ready =>
      \A c \in Calls : \A it \in FindContainingBlock(tree, c.address) :
        /\ it.attr # c.old_attr => Apply(tree, num_blocks, it, c).outcome = "false"
        /\ (Apply(tree, num_blocks, it, c).outcome = "true" /\ c.new_attr # c.old_attr)
              => SecondOutcomes(tree, num_blocks, it, c) = {"false"}

\* C6. Type-derivation gate: Insert returns false whenever CanDerive(new_type_id)
\* is false for the type of the block containing address, whatever the other
\* arguments; and every block's type derives from the original block's type.
C6_TypeDerivationGate ==
    /\ Ready =>
         \A c \in Calls : \A it \in FindContainingBlock(tree, c.address) :
           ~CanDerive(it.type, c.type_id) => Apply(tree, num_blocks, it, c).outcome = "false"
    /\ \A b \in tree : CanDerive(InitType, b.type)

\* Insert has returned false at the derivation check on a tree that holds a
\* block of a derived type.
C6_Witness ==
    /\ last = Exited("Insert", "derive")
    /\ \E b \in tree : b.type = {1, 2}

\* C7. Pair-address propagation: when the block split by a successful Insert has a
\* valid pair address P, the before-remainder has pair P, the new block
\* P + (address - old_address) and the after-remainder
\* P + (address + size - old_address); when its pair is the sentinel, every
\* resulting block has the sentinel.
C7_PairPropagation ==
    Ready =>
      \A c \in Calls : \A it \in FindContainingBlock(tree, c.address) :
        LET r      == Apply(tree, num_blocks, it, c)
            end    == Wrap(c.address + c.size)
            pieces == r.tree \ (tree \ {it})
        IN  r.outcome = "true" =>
              \A b \in pieces :
                IF it.pair = UintMax THEN b.pair = UintMax
                ELSE /\ (b.address = it.address /\ it.address # c.address) => b.pair = it.pair
                     /\ b.address = c.address
                          => b.pair = Wrap(it.pair + (c.address - it.address))
                     /\ (b.address = end /\ end # c.address /\ end # it.address)
                          => b.pair = Wrap(it.pair + (c.address + c.size - it.address))

\* A block with a valid pair address has been split in three: the new block and the
\* after-remainder carry the pair address moved by their offsets.
C7_Witness ==
    /\ last = Exited("Insert", "split")
    /\ Cardinality(tree) = 3
    /\ \E b \in tree : b.address = 0 /\ b.pair = 0
    /\ \E b \in tree : b.address = 1 /\ b.pair = 1 /\ b.type = {1, 2}
    /\ \E b \in tree : b.address = 2 /\ b.pair = 2

\* C8. Split-to-edges: a successful Insert with size > 0 never creates a
\* zero-length block; the block count grows by 2 when the new region is strictly
\* interior, by 1 when it starts at the containing block's start or ends at its
\* end (not both), and by 0 when it covers the containing block exactly.
C8_SplitToEdges ==
    Ready =>
      \A c \in Calls : \A it \in FindContainingBlock(tree, c.address) :
        LET r       == Apply(tree, num_blocks, it, c)
            grown   == Cardinality(r.tree) - Cardinality(tree)
            atStart == c.address = it.address
            atEnd   == c.address + c.size = it.address + it.size
        IN  r.outcome = "true" =>
              /\ \A b \in r.tree : b.size > 0
              /\ (it.address < c.address /\ c.address + c.size < it.address + it.size)
                    => grown = 2
              /\ (atStart /\ ~atEnd) \/ (atEnd /\ ~atStart) => grown = 1
              /\ (atStart /\ atEnd) => grown = 0

\* Insert has split at an edge: two blocks, the governed space still tiled.
C8_Witness ==
    /\ last = Exited("Insert", "split")
    /\ Cardinality(tree) = 2
    /\ Tiles(tree)

\* C9. Retry idempotence: after Insert(a, s, T, new_attr, old_attr) has returned
\* true, an immediately repeated call with the same arguments leaves the set of
\* blocks as it was after the first call, whether it returns true or false.
C9_RetryIdempotence ==
    Ready =>
      \A c \in Calls : \A it \in FindContainingBlock(tree, c.address) :
        LET r == Apply(tree, num_blocks, it, c)
        IN  r.outcome = "true" =>
              \A it2 \in FindContainingBlock(r.tree, c.address) :
                LET r2 == Apply(r.tree, r.num_blocks, it2, c)
                IN  r2.outcome \in {"true", "false"} => r2.tree = r.tree

\* C10. Random-region containment: every address r that GetRandomAlignedRegion
\* (size, alignment, type_id) returns is a multiple of alignment, r + size does not
\* wrap around, [r, r + size) lies inside one block of the tree, that block's type
\* is exactly type_id, and r lies within the extents [first_address, last_address].
C10_RandomRegionContainment ==
    [][(pc = "loop" /\ last'.exit = "return")
         => LET r == last'.value
            IN  /\ r % frame.alignment = 0
                /\ r + frame.size <= UintMax
                /\ \E b \in tree : /\ b.address <= r
                                   /\ r + frame.size <= b.address + b.size
                                   /\ b.type = frame.type_id
                /\ frame.first_address <= r /\ r <= frame.last_address]_vars

\* GetRandomAlignedRegion has returned an aligned address above the first block
\* of a tree that Insert has split.
C10_Witness ==
    /\ last.op = "GetRandomAlignedRegion" /\ last.exit = "return"
    /\ last.value = 2
    /\ Cardinality(tree) = 2

----------------------------------------------------------------------------
(* The candidates of a search, in the words of its contract. *)

\* The multiples of alignment within the extents.
Candidates(f) == {c \in f.first_address .. f.last_address : c % f.alignment = 0}

\* [c, c + size) is a non-empty range that does not wrap around and lies inside
\* one block of exactly the type searched for.
Acceptable(t, f, c) ==
    /\ f.size > 0
    /\ c + f.size <= UintMax
    /\ \E b \in t : /\ b.address <= c
                     /\ c + f.size <= b.address + b.size
                     /\ b.type = f.type_id

Rejections == {"overflow", "region", "block", "type"}

\* C11. A search whose constraint set is impossible (no multiple of alignment in
\* the extents is the start of a range of size bytes inside one block of exactly
\* type_id; size = 0 included) ends in a fatal abort: it neither goes on for ever
\* nor returns an address.
C11_ImpossibleSearchAborts ==
    (pc = "loop" /\ \A c \in Candidates(frame) : ~Acceptable(tree, frame, c)) ~> aborted

\* C12. If a candidate in the extents passes every check, then with a fair random
\* source the loop eventually returns; and no turn of the loop modifies the tree.
C12_SearchTerminates ==
    /\ (pc = "loop" /\ \E c \in Candidates(frame) : Acceptable(tree, frame, c))
          ~> (pc = "idle" /\ last.op = "GetRandomAlignedRegion" /\ last.exit = "return")
    /\ [][pc = "loop" => (tree' = tree /\ num_blocks' = num_blocks)]_vars

\* A turn of the loop has rejected its candidate while another one is acceptable.
C12_Witness ==
    /\ pc = "loop"
    /\ last.exit \in Rejections
    /\ \E c \in Candidates(frame) : Acceptable(tree, frame, c)
    /\ Cardinality(tree) >= 2

\* C13. GetRandomAlignedRegion aborts before drawing a candidate when the first
\* block deriving from type_id does not start at a multiple of alignment; hence no
\* candidate it examines is below first_address.
C13_MisalignedExtentsAbort ==
    [][/\ (pc = "idle" /\ last'.op = "GetRandomAlignedRegion" /\ frame' # NoFrame)
            => /\ frame'.first_address
                     = FirstBlock(DerivedBlocks(tree, frame'.type_id)).address
               /\ IsAligned(frame'.first_address, frame'.alignment) <=> pc' = "loop"
               /\ ~IsAligned(frame'.first_address, frame'.alignment)
                     => (aborted' /\ last'.exit = "abort")
       /\ (pc = "loop" /\ last'.exit \in Rejections \cup {"return"})
            => last'.value >= frame.first_address]_vars

\* A call has aborted at the alignment check: the first block deriving from its
\* type starts at an address that is not a multiple of its alignment.
C13_Witness ==
    /\ aborted /\ pc = "idle"
    /\ last = Exited("GetRandomAlignedRegion", "abort")
    /\ frame # NoFrame
    /\ ~IsAligned(frame.first_address, frame.alignment)

----------------------------------------------------------------------------
(* The pool regions of the physical tree, in the words of the layout's contract. *)

BlocksOfType(t, type_id) == {b \in t : b.type = type_id}

RegionStart(bs) == FirstBlock(bs).address
RegionEnd(bs) == LastBlock(bs).address + LastBlock(bs).size
RegionSize(bs) == IF bs = {} THEN 0 ELSE RegionEnd(bs) - RegionStart(bs)

\* The blocks of bs make up one range without a hole.
IsRegion(bs) ==
    /\ bs # {}
    /\ \A b \in bs : b.size > 0
    /\ \A b \in bs : b.address = RegionStart(bs)
                     \/ \E c \in bs : c.address + c.size = b.address

SystemPool == BlocksOfType(phys_tree, KMemoryRegionType_DramSystemPool)
MetadataPool == BlocksOfType(phys_tree, KMemoryRegionType_DramMetadataPool)
SystemNonSecurePool == BlocksOfType(phys_tree, KMemoryRegionType_DramSystemNonSecurePool)
AppletPool == BlocksOfType(phys_tree, KMemoryRegionType_DramAppletPool)
ApplicationPool == BlocksOfType(phys_tree, KMemoryRegionType_DramApplicationPool)

\* First address and end of DRAM: of the blocks deriving from the DRAM type.
DramStart == RegionStart(DerivedBlocks(phys_tree, KMemoryRegionType_Dram))
DramEnd == RegionEnd(DerivedBlocks(phys_tree, KMemoryRegionType_Dram))

PoolDone == pool_pc = "done" /\ ~aborted

\* C14. Pool partition layout: once SetupPoolPartitionMemoryBlocks has completed,
\* the physical tree holds the system, metadata, non-secure-system, applet and
\* application pool regions in that order from low to high, each ending where the
\* next begins, the system pool starting at the pool partition's start and the
\* application pool ending at the end of DRAM.
C14_PoolPartitionLayout ==
    PoolDone =>
      /\ KeysOrdered(phys_tree)
      /\ IsRegion(SystemPool) /\ IsRegion(MetadataPool) /\ IsRegion(SystemNonSecurePool)
      /\ IsRegion(AppletPool) /\ IsRegion(ApplicationPool)
      /\ RegionStart(SystemPool) = pool.pool_partitions_start
      /\ RegionEnd(SystemPool) = RegionStart(MetadataPool)
      /\ RegionEnd(MetadataPool) = RegionStart(SystemNonSecurePool)
      /\ RegionEnd(SystemNonSecurePool) = RegionStart(AppletPool)
      /\ RegionEnd(AppletPool) = RegionStart(ApplicationPool)
      /\ RegionEnd(ApplicationPool) = DramEnd

\* The setup has completed with five insertions on a board whose kernel starts
\* above address 0.
C14_Witness ==
    /\ PoolDone
    /\ Len(pool.inserted) = 5
    /\ pool.kernel_dram_start > 0
    /\ pool.system_pool_size > 1

PoolSizesSum ==
    RegionSize(SystemPool) + RegionSize(MetadataPool) + RegionSize(SystemNonSecurePool)
    + RegionSize(AppletPool) + RegionSize(ApplicationPool)

\* C15. Pool partition sizes: once SetupPoolPartitionMemoryBlocks has completed,
\* the sizes of the five pool regions sum to the DRAM extent (end of the last block
\* deriving from DRAM minus start of the first).
C15_PoolSizesSumToDramExtent == PoolDone => PoolSizesSum = DramEnd - DramStart

\* C15 as amended: the sizes of the five pool regions sum to the end of DRAM minus
\* the start of the pool partition region.
C15_PoolSizesSumToPartition ==
    PoolDone => /\ IsRegion(SystemPool) /\ IsRegion(MetadataPool)
                /\ IsRegion(SystemNonSecurePool) /\ IsRegion(AppletPool)
                /\ IsRegion(ApplicationPool)
                /\ PoolSizesSum = DramEnd - pool.pool_partitions_start

\* The setup has completed on a board whose pool partition starts above the start
\* of DRAM.
C15_Witness ==
    /\ PoolDone
    /\ pool.pool_partitions_start > DramStart
    /\ PoolSizesSum > 0

\* C16. Lock-step mirroring: a call of InsertPoolPartitionBlockIntoBothTrees that
\* returns leaves the block [start, start + size) of phys_type in the physical tree
\* and, at that block's pair address in the virtual tree, a block of virt_type with
\* the same size and attribute value; no call returns with one tree updated only.
C16_LockStepMirroring ==
    [][/\ Len(pool'.inserted) = Len(pool.inserted) + 1
            => LET c == pool'.inserted[Len(pool'.inserted)]
               IN  \E b \in phys_tree' :
                     /\ b.address = c.start /\ b.size = c.size
                     /\ b.type = c.phys_type /\ b.attr = c.attr
                     /\ \E v \in tree' :
                          /\ v.address = b.pair /\ v.size = c.size
                          /\ v.type = c.virt_type /\ v.attr = c.attr
       /\ (pool_pc # "none" /\ ~aborted') => (phys_tree' # phys_tree <=> tree' # tree)]_vars

\* Both trees hold the halves of a split application pool, mirrored.
C16_Witness ==
    /\ ~aborted
    /\ Len(pool.inserted) >= 2
    /\ Cardinality(ApplicationPool) = 2
    /\ Cardinality(BlocksOfType(tree, KMemoryRegionType_VirtualDramApplicationPool)) = 2

\* C17. Fresh per-pool attribute tag: within one run, every pool insertion is given
\* an attribute value that no earlier insertion of the run was given.
C17_FreshAttributeTag ==
    \A i, j \in 1 .. Len(pool.inserted) :
       i # j => pool.inserted[i].attr # pool.inserted[j].attr

\* C17 as amended: every insertion but the metadata pool's is given the next value
\* of the run's counter (0, 1, 2, ...), a value no earlier such insertion was given;
\* the metadata pool's is given 0 from a counter of its own; and no two insertions
\* of a run share both their physical type and their attribute value.
C17_FreshTagPerCounter ==
    LET calls == pool.inserted
        Counted(i) == calls[i].phys_type # KMemoryRegionType_DramMetadataPool
    IN  /\ \A i \in 1 .. Len(calls) :
             IF Counted(i)
             THEN calls[i].attr = Cardinality({j \in 1 .. (i - 1) : Counted(j)})
             ELSE calls[i].attr = 0
        /\ \A i, j \in 1 .. Len(calls) :
             i # j => \/ calls[i].attr # calls[j].attr
                      \/ calls[i].phys_type # calls[j].phys_type

\* The metadata pool has been inserted after a split application pool, the applet
\* pool and the non-secure system pool.
C17_Witness ==
    /\ ~aborted
    /\ Len(pool.inserted) = 5
    /\ pool.inserted[5].phys_type = KMemoryRegionType_DramMetadataPool
    /\ pool.inserted[4].attr = 3

\* C18. Midpoint-aware split: when the middle of DRAM lies strictly inside the
\* application pool's range, the pool goes in as the two blocks
\* [application_pool_start, midpoint) and [midpoint, end of DRAM), their sizes
\* summing to application_pool_size and the metadata overhead counted for each
\* half; otherwise it goes in as one block of application_pool_size.
C18_MidpointAwareSplit ==
    (pool_pc = "applet" /\ ~aborted) =>
      LET start    == pool.application_pool_start
          size     == pool.application_pool_size
          midpoint == (DramStart + DramEnd) \div 2
          calls    == pool.inserted
          IsBlock(a, n) ==
              \E b \in phys_tree : /\ b.address = a /\ b.size = n
                                   /\ b.type = KMemoryRegionType_DramApplicationPool
      IN  IF start < midpoint /\ midpoint < DramEnd
          THEN /\ Len(calls) = 2
               /\ IsBlock(start, midpoint - start) /\ IsBlock(midpoint, DramEnd - midpoint)
               /\ (midpoint - start) + (DramEnd - midpoint) = size
               /\ pool.total_overhead_size
                    = CalculateMetadataOverheadSize(midpoint - start)
                      + CalculateMetadataOverheadSize(DramEnd - midpoint)
          ELSE /\ Len(calls) = 1
               /\ IsBlock(start, size)
               /\ Cardinality(ApplicationPool) = 1
               /\ pool.total_overhead_size = CalculateMetadataOverheadSize(size)

\* The application pool has gone in as two halves whose overheads differ from the
\* overhead of the whole.
C18_Witness ==
    /\ pool_pc = "applet" /\ ~aborted
    /\ Len(pool.inserted) = 2
    /\ pool.total_overhead_size # CalculateMetadataOverheadSize(pool.application_pool_size)

----------------------------------------------------------------------------
(* The core-local region. *)

CoreLocalBlocks == BlocksOfType(tree, KMemoryRegionType_CoreLocal)

\* The page table core i is booted with: the one SetInitArguments was given.
CorePageTable(i) == core.page_tables[core.core_l1_ttbr1_phys[i]]

CoreLocalPage(n) == Wrap(core.core_local_virt_start + n * PageSize)

\* C19. Core-local page mapping: once SetupCoreLocalRegionMemoryBlocks has
\* completed, the page table of every core i maps the first page of the core-local
\* region to the page the allocator reserved for core i, and page j + 1 of the
\* region to the page reserved for core j, for every core j.
C19_CoreLocalPageMapping ==
    (core_pc = "done" /\ ~aborted) =>
      \A i \in Cores :
        /\ CoreLocalPage(0) \in DOMAIN CorePageTable(i)
        /\ CorePageTable(i)[CoreLocalPage(0)] = core.core_local_region_start_phys[i]
        /\ \A j \in Cores :
             /\ CoreLocalPage(j + 1) \in DOMAIN CorePageTable(i)
             /\ CorePageTable(i)[CoreLocalPage(j + 1)] = core.core_local_region_start_phys[j]

\* C20. Core-local region placement: the insertion of the CoreLocal block leaves
\* one CoreLocal block of CoreLocalRegionSize at a page-aligned address; the
\* guarded range, from one page before the block through one page after it, was
\* inside one None block and crosses no CoreLocalRegionBoundsAlign boundary; the
\* pages right before and right after the block still belong to None blocks; and
\* the rest of SetupCoreLocalRegionMemoryBlocks leaves the tree as it is.
C20_CoreLocalRegionPlacement ==
    [][/\ (core_pc = "insert" /\ core_pc' = "allocate") =>
            LET start == core'.core_local_virt_start
                guard_first == start - PageSize
                guard_last == start + CoreLocalRegionSize + PageSize - 1
                NoneAt(t, a) == \E b \in t : /\ b.type = KMemoryRegionType_None
                                             /\ b.address <= a
                                             /\ a < b.address + b.size
            IN  /\ CoreLocalBlocks = {}
                /\ BlocksOfType(tree', KMemoryRegionType_CoreLocal)
                     = {b \in tree' : b.address = start}
                /\ \E b \in tree' : /\ b.address = start
                                    /\ b.size = CoreLocalRegionSize
                                    /\ b.type = KMemoryRegionType_CoreLocal
                /\ Cardinality(BlocksOfType(tree', KMemoryRegionType_CoreLocal)) = 1
                /\ IsAligned(start, PageSize)
                /\ guard_first >= 0 /\ guard_last < word
                /\ \E b \in tree : /\ b.type = KMemoryRegionType_None
                                   /\ b.address <= guard_first
                                   /\ guard_last < b.address + b.size
                /\ guard_first \div CoreLocalRegionBoundsAlign
                     = guard_last \div CoreLocalRegionBoundsAlign
                /\ \A a \in guard_first .. (start - 1) : NoneAt(tree', a)
                /\ \A a \in (start + CoreLocalRegionSize) .. guard_last : NoneAt(tree', a)
       /\ core_pc \in {"allocate", "l1", "map", "store", "done"} => tree' = tree]_vars

\* The CoreLocal block is in a tree that holds memory in use below it, above the
\* first bound of the address space, and the setup has completed.
C20_Witness ==
    /\ core_pc = "done" /\ ~aborted
    /\ Cardinality(CoreLocalBlocks) = 1
    /\ core.core_local_virt_start > CoreLocalRegionBoundsAlign
    /\ \E b \in tree : b.type = KMemoryRegionType_Dram /\ b.size > 0

----------------------------------------------------------------------------
(* The linear trees. *)

\* What a block of a linear tree has in common with its source.
BlockContents(b) == [address |-> b.address, size |-> b.size, attr |-> b.attr, type |-> b.type]

LinearMappedBlocks(t) == {b \in t : HasTypeAttribute(b, KMemoryRegionAttr_LinearMapped)}

\* C21. Linear tree derivation: when InitializeLinearMemoryBlockTrees, run once on
\* empty linear trees, completes, the physical linear tree holds exactly one block
\* for each block of the physical tree with the LinearMapped attribute and the
\* virtual linear tree exactly one for each block of the virtual tree deriving from
\* the DRAM type, each copy with its source's address, size, attributes and type;
\* and no step of the function changes the physical or the virtual tree.
C21_LinearTreeDerivation ==
    [][/\ (linear.pc # "done" /\ linear'.pc = "done") =>
            LET physical == LinearMappedBlocks(phys_tree')
                virtual  == DerivedBlocks(tree', KMemoryRegionType_Dram)
            IN  /\ {BlockContents(b) : b \in linear'.physical_linear_tree}
                     = {BlockContents(b) : b \in physical}
                /\ Cardinality(linear'.physical_linear_tree) = Cardinality(physical)
                /\ {BlockContents(b) : b \in linear'.virtual_linear_tree}
                     = {BlockContents(b) : b \in virtual}
                /\ Cardinality(linear'.virtual_linear_tree) = Cardinality(virtual)
       /\ linear.pc \in {"start", "physical", "virtual"}
            => (phys_tree' = phys_tree /\ tree' = tree)]_vars

\* The function has completed on trees where some blocks are copied and some are
\* not, on either side, the copied ones carrying attribute values other than 0.
C21_Witness ==
    /\ linear.pc = "done" /\ ~aborted /\ linear.inserts = 0
    /\ \E b \in linear.physical_linear_tree : b.attr # 0
    /\ Cardinality(linear.physical_linear_tree) \in 1 .. (Cardinality(phys_tree) - 1)
    /\ Cardinality(linear.virtual_linear_tree) \in 1 .. (Cardinality(tree) - 1)

\* C22. Linear translation round-trip: once InitializeLinearMemoryBlockTrees has
\* set them, the two differences sum to 0 modulo the address width, phys_start plus
\* phys_to_virt_diff is virt_start, and adding phys_to_virt_diff and then
\* virt_to_phys_diff to any address gives the address back; an Insert on the
\* physical or the virtual tree changes neither the differences nor the linear
\* trees.
C22_LinearTranslationRoundTrip ==
    /\ [](linear.pc \in {"physical", "virtual", "done"} =>
            /\ Wrap(linear.s_linear_phys_to_virt_diff + linear.s_linear_virt_to_phys_diff) = 0
            /\ Wrap(linear.aligned_linear_phys_start + linear.s_linear_phys_to_virt_diff)
                 = linear.linear_virtual_start
            /\ \A x \in Addresses :
                 Wrap(Wrap(x + linear.s_linear_phys_to_virt_diff)
                      + linear.s_linear_virt_to_phys_diff) = x)
    /\ [][linear.pc = "done" =>
            /\ linear'.s_linear_phys_to_virt_diff = linear.s_linear_phys_to_virt_diff
            /\ linear'.s_linear_virt_to_phys_diff = linear.s_linear_virt_to_phys_diff
            /\ linear'.physical_linear_tree = linear.physical_linear_tree
            /\ linear'.virtual_linear_tree = linear.virtual_linear_tree]_vars

\* Both trees have been changed by an Insert after the linear trees were set up
\* with the virtual start below the physical one.
C22_Witness ==
    /\ linear.pc = "done" /\ ~aborted /\ linear.inserts = 2
    /\ linear.linear_virtual_start < linear.aligned_linear_phys_start
    /\ Cardinality(phys_tree) > 3 /\ Cardinality(tree) > 3
    /\ linear.physical_linear_tree # {}

----------------------------------------------------------------------------
(* The boot arguments of the cores. *)

\* C23. Boot-argument ordering: SetupCoreLocalRegionMemoryBlocks calls
\* SetInitArguments once for each core 0 .. NumCores - 1, in that order, with the
\* page reserved for the core and the address of the core's L1 table (the table
\* TTBR1_EL1 points to for core 0, a newly allocated copy of it for the others),
\* and calls StoreInitArguments once, after the last SetInitArguments.
C23_BootArgumentOrdering ==
    /\ [](/\ Len(core.init_arguments) <= NumCores
          /\ Len(core.stored) <= 1
          /\ core.stored # <<>> => Len(core.init_arguments) = NumCores
          /\ \A n \in 1 .. Len(core.init_arguments) :
               LET a == core.init_arguments[n]
               IN  /\ a.core = n - 1
                   /\ a.core_local_region_start_phys
                        = core.core_local_region_start_phys[n - 1]
                   /\ a.ttbr1 = core.core_l1_ttbr1_phys[n - 1]
                   /\ a.ttbr1 \in DOMAIN core.page_tables
                   /\ n = 1 => a.ttbr1 = AlignDown(core.ttbr1_el1, PageSize)
                   /\ n > 1 => /\ a.ttbr1 # AlignDown(core.ttbr1_el1, PageSize)
                               /\ a.ttbr1 < core.next_free
                   /\ \A k \in 1 .. (n - 1) :
                        /\ core.init_arguments[k].ttbr1 # a.ttbr1
                        /\ core.init_arguments[k].core_local_region_start_phys
                             # a.core_local_region_start_phys
                   /\ \A k \in 1 .. Len(core.init_arguments) :
                        core.init_arguments[k].ttbr1 # a.core_local_region_start_phys
          /\ (core_pc = "done" /\ ~aborted) =>
               /\ Len(core.init_arguments) = NumCores
               /\ core.stored = <<core.init_arguments>>)
    /\ [][core.stored # <<>> => core'.init_arguments = core.init_arguments]_vars

\* The setup has completed: every core's arguments are set and stored.
C23_Witness ==
    /\ core_pc = "done" /\ ~aborted
    /\ Len(core.init_arguments) = NumCores
    /\ Len(core.stored) = 1

----------------------------------------------------------------------------
(* The storage of the blocks. *)

SlotsChanged == {slot \in DOMAIN storage : storage'[slot] # storage[slot]}
SlotsDrawn == (DOMAIN storage') \ (DOMAIN storage)

\* C24. Block-storage accounting of Insert: an Insert that returns true draws from
\* the allocator as many blocks as it creates remainders (0, 1 or 2) and puts the
\* lowest-addressed of the resulting blocks into the original block's storage; the
\* blocks of the tree are the initial ones plus those drawn, and no slot backs two
\* blocks: every other block stays in its slot.
C24_BlockStorageAccounting ==
    [][(last'.op = "Insert" /\ last'.exit = "split" /\ ~aborted') =>
         /\ DOMAIN storage \subseteq DOMAIN storage'
         /\ Cardinality(SlotsDrawn) = num_blocks' - num_blocks
         /\ Cardinality(SlotsDrawn) \in 0 .. 2
         /\ Cardinality(SlotsChanged) <= 1
         /\ Cardinality(SlotsDrawn) > 0 => Cardinality(SlotsChanged) = 1
         /\ \A slot \in SlotsChanged : \A drawn \in SlotsDrawn :
              storage'[slot].address <= storage'[drawn].address]_vars

\* C24 where address + size stays within the address width.
C24_NoWrapAccounting ==
    [][(last'.op = "Insert" /\ last'.exit = "split" /\ ~aborted') =>
         \/ \E b \in {storage'[slot] : slot \in DOMAIN storage'} :
              b.address + b.size > word
         \/ /\ DOMAIN storage \subseteq DOMAIN storage'
            /\ Cardinality(SlotsDrawn) = num_blocks' - num_blocks
            /\ Cardinality(SlotsDrawn) \in 0 .. 2
            /\ Cardinality(SlotsChanged) <= 1
            /\ Cardinality(SlotsDrawn) > 0 => Cardinality(SlotsChanged) = 1
            /\ \A slot \in SlotsChanged : \A drawn \in SlotsDrawn :
                 storage'[slot].address <= storage'[drawn].address]_vars

----------------------------------------------------------------------------
(* The semaphore. *)

Returns(t) == thread[t].pc = "locked" /\ thread'[t].pc = "idle"

\* C25. Semaphore count invariant: whatever the interleaving of the calls,
\* 0 <= count <= max_count in every state; an acquire that succeeds lowers count by
\* exactly 1; TryAcquireSemaphore and a timed-out TimedAcquireSemaphore return
\* false with count as it was.
C25_SemaphoreCountInvariant ==
    /\ [](0 <= sema.count /\ sema.count <= sema.max_count)
    /\ [][\A t \in Threads :
            Returns(t) =>
              CASE thread[t].op = "AcquireSemaphore" -> sema'.count = sema.count - 1
                [] thread[t].op \in {"TryAcquireSemaphore", "TimedAcquireSemaphore"} ->
                     IF thread'[t].result = "true"
                     THEN sema'.count = sema.count - 1
                     ELSE thread'[t].result = "false" /\ sema'.count = sema.count
                [] OTHER -> sema'.count = sema.count + thread[t].count]_vars

\* The count is back at its bound after one thread has come back from a
\* TimedAcquireSemaphore that timed out and another from a TryAcquireSemaphore
\* that succeeded.
C25_Witness ==
    /\ sema.count = sema.max_count
    /\ \E t \in Threads : /\ thread[t].pc = "idle" /\ thread[t].result = "false"
                          /\ thread[t].op = "TimedAcquireSemaphore"
    /\ \E t \in Threads : /\ thread[t].pc = "idle" /\ thread[t].result = "true"
                          /\ thread[t].op = "TryAcquireSemaphore"

\* C26. No lost wake-up: whenever count > 0 and a thread is blocked inside
\* AcquireSemaphore, a blocked thread is on its way to acquire: some thread has
\* been woken, is inside a call, or waits with a timeout. (In a state without
\* any, nothing moves until another call is made, and no blocked thread acquires.)
C26_NoLostWakeUp ==
    (/\ sema.count > 0
     /\ \E t \in Threads : thread[t].pc = "wait" /\ thread[t].op = "AcquireSemaphore")
    => \E u \in Threads :
          \/ thread[u].pc \in {"lock", "locked", "woken"}
          \/ thread[u].pc = "wait" /\ thread[u].op = "TimedAcquireSemaphore"

----------------------------------------------------------------------------
(* The pooled buffers. *)

HeapCompletelyFree == GetTotalFreeSize(heap.free) = heap.size

Attempts(b) == buffer[b].pc = "attempt" /\ buffer'[b].pc = "check"

\* C27. Liveness of PooledBuffer::AllocateCore: for every required_size within the
\* asserted bound the loop allocates once the heap is completely free; stated on one
\* attempt: an attempt made on a completely free heap allocates. (A failed attempt
\* leaves the heap as it is, so on a heap that stays free it fails for ever.)
C27_AllocatesOnFreeHeap ==
    [][\A b \in Buffers :
          Attempts(b) /\ HeapCompletelyFree => buffer'[b].m_buffer # nullptr]_vars

\* While it cannot allocate AllocateCore does not return: it leaves the loop only
\* with a buffer, and a failed attempt is followed by one more retry counted and
\* the next attempt.
C27_RetryUntilAllocated ==
    /\ [](\A b \in Buffers :
            buffer[b].pc \in {"trimmed", "metrics"} => buffer[b].m_buffer # nullptr)
    /\ [][\A b \in Buffers :
            buffer[b].pc = "check" /\ buffer[b].m_buffer = nullptr /\ buffer'[b] # buffer[b]
               => /\ buffer'[b].pc = "attempt"
                  /\ heap'.g_retry_count = heap.g_retry_count + 1]_vars

\* C28. Postcondition of PooledBuffer::AllocateCore: when it returns the buffer is
\* not null, required_size <= GetSize() < target_size + HeapAllocatableSizeTrim,
\* and the block taken from the heap was at most half of the heap's largest
\* allocatable size at that moment whenever that size was above one heap block.
C28_AllocateCorePostcondition ==
    \A b \in Buffers :
       buffer[b].pc \in {"trimmed", "metrics"} =>
          /\ buffer[b].m_buffer # nullptr
          /\ buffer[b].required_size <= buffer[b].m_size
          /\ buffer[b].m_size < buffer[b].target_size + HeapAllocatableSizeTrim
          /\ buffer[b].target_size =
                 Min(IF buffer[b].ideal_size > buffer[b].required_size
                     THEN buffer[b].ideal_size ELSE buffer[b].required_size,
                     IF buffer[b].large THEN HeapAllocatableSizeMaxForLarge
                     ELSE HeapAllocatableSizeMax)
          /\ buffer[b].max_at_allocation > HeapBlockSize
                 => 2 * buffer[b].taken <= buffer[b].max_at_allocation

\* An allocation about to return that was trimmed after it took exactly half of the
\* largest free block, while the other buffer holds memory.
C28_Witness ==
    \E b \in Buffers :
       /\ buffer[b].pc = "metrics"
       /\ buffer[b].required_size > 0
       /\ buffer[b].m_size < buffer[b].taken
       /\ 2 * buffer[b].taken = buffer[b].max_at_allocation
       /\ \E o \in Buffers : o # b /\ buffer[o].m_buffer # nullptr

ChunkSizes == {HeapBlockSize * p : p \in PowersOfTwo}

\* C29. PooledBuffer::Shrink(ideal_size) on a buffer of m bytes, m a multiple of
\* HeapBlockSize: the loop ends (each turn lowers the size, never below the new
\* size, and no assertion fails); with m > ideal_size the final size is
\* AlignUp(ideal_size, HeapBlockSize), otherwise the size is unchanged and nothing is
\* freed; every chunk given back is the current tail, a power of two times
\* HeapBlockSize, at an offset that is a multiple of its size; the pointer is null
\* exactly when the final size is 0.
C29_ShrinkFreesAlignedTail ==
    /\ [](\A b \in Buffers :
            /\ buffer[b].pc = "shrink_done" =>
                  /\ IF buffer[b].size_before > buffer[b].shrink_ideal
                     THEN buffer[b].m_size = ((buffer[b].shrink_ideal + HeapBlockSize - 1)
                                                 \div HeapBlockSize) * HeapBlockSize
                     ELSE buffer[b].m_size = buffer[b].size_before
                             /\ buffer[b].chunks = <<>>
                  /\ buffer[b].m_buffer = nullptr <=> buffer[b].m_size = 0
            /\ \A i \in DOMAIN buffer[b].chunks :
                  LET chunk == buffer[b].chunks[i]
                      tail == IF i = 1 THEN buffer[b].size_before
                              ELSE buffer[b].chunks[i - 1].offset
                  IN  /\ chunk.size \in ChunkSizes
                      /\ chunk.offset % chunk.size = 0
                      /\ chunk.offset + chunk.size = tail)
    /\ [][\A b \in Buffers :
            buffer[b].pc = "shrink_loop" /\ buffer[b].new_size < buffer[b].m_size
            /\ buffer'[b] # buffer[b]
               => /\ buffer'[b].pc = "shrink_loop"
                  /\ buffer'[b].m_size < buffer[b].m_size
                  /\ buffer'[b].m_size >= buffer[b].new_size]_vars

\* A Shrink that gave back two chunks of different sizes and left a buffer.
C29_Witness ==
    \E b \in Buffers :
       /\ buffer[b].pc = "shrink_done"
       /\ Len(buffer[b].chunks) >= 2
       /\ buffer[b].chunks[1].size # buffer[b].chunks[2].size
       /\ buffer[b].m_size > 0
       /\ buffer[b].ret = "idle"

\* A Shrink that freed the whole buffer, and one that had nothing to free.
C29_WitnessNull ==
    /\ \E b \in Buffers : /\ buffer[b].pc = "shrink_done" /\ buffer[b].m_size = 0
                          /\ buffer[b].chunks # <<>>
    /\ \E b \in Buffers : /\ buffer[b].pc = "shrink_done" /\ buffer[b].m_size > 0
                          /\ buffer[b].chunks = <<>>

----------------------------------------------------------------------------
(* The file storage. *)

\* C30. FileHandleStorage size cache under concurrency: once every call of Read,
\* Write, GetSize and SetSize has returned, a valid cached size
\* (m_size # InvalidSize) is the size of the file.
C30_SizeCacheCoherent ==
    (\A t \in Callers : caller[t].pc = "idle")
        => (file.m_size # InvalidSize => file.m_size = file.size)

----------------------------------------------------------------------------
(* The file storage used by one thread. *)

LastAccess == fstorage.last.op \in {"Read", "Write"}

\* [offset, offset + size) lies within the base file.
LastInRange ==
    /\ fstorage.last.offset >= 0
    /\ fstorage.last.offset + fstorage.last.size <= fstorage.base_size

CacheAndOrder ==
    /\ fstorage.m_size # InvalidSize => fstorage.m_size = fstorage.base_size
    /\ fstorage.pc = "setsize" => fstorage.m_size = InvalidSize

AccessReachesBaseOnlyWhenValid ==
    LastAccess =>
       IF fstorage.last.size = 0
       THEN /\ fstorage.last.result = "Success"
            /\ ~fstorage.last.reached_base /\ ~fstorage.last.asked_size
            /\ fstorage.m_size = fstorage.last.m_size_before
       ELSE fstorage.last.reached_base => ~fstorage.last.buffer_null /\ LastInRange

\* C31, as stated. FileStorage used by one thread: a valid cached size is the base
\* file's size; SetSize drops the cache before it calls the base file; a Read or
\* Write of size > 0 reaches the base file only with a buffer and a range inside
\* the file, and returns NullptrArgument or OutOfRange otherwise; with size 0 it
\* succeeds without touching the base file or the cache.
C31_SizeCacheAndRangeValidation ==
    /\ CacheAndOrder
    /\ AccessReachesBaseOnlyWhenValid
    /\ LastAccess /\ fstorage.last.size > 0
       /\ (fstorage.last.buffer_null \/ ~LastInRange)
          => fstorage.last.result \in {"NullptrArgument", "OutOfRange"}

\* C31, amended: ... and returns NullptrArgument or OutOfRange otherwise, or, with a
\* buffer and no valid cached size, the failure of the base file's GetSize.
C31_SizeCacheAndRangeValidationOrGetSizeFailure ==
    /\ CacheAndOrder
    /\ AccessReachesBaseOnlyWhenValid
    /\ LastAccess /\ fstorage.last.size > 0
       /\ (fstorage.last.buffer_null \/ ~LastInRange)
          => \/ fstorage.last.result \in {"NullptrArgument", "OutOfRange"}
             \/ /\ fstorage.last.result = "GetSizeFailed"
                /\ ~fstorage.last.buffer_null
                /\ fstorage.last.m_size_before = InvalidSize
                /\ fstorage.last.asked_size

\* A Write of one byte past the end of the file, whose size this call fetched, is
\* refused with OutOfRange.
C31_Witness ==
    /\ fstorage.last.op = "Write"
    /\ fstorage.last.result = "OutOfRange"
    /\ fstorage.last.asked_size
    /\ fstorage.last.offset + fstorage.last.size = fstorage.base_size + 1
    /\ fstorage.base_size = MaxFileSize
    /\ fstorage.m_size = fstorage.base_size

----------------------------------------------------------------------------
(* The atomic. *)

\* C32. util::Atomic store/load round trip: for every value v and every memory
\* order, after Store(v) the atomic holds v (so a Load with no write in between
\* returns v), a Load returns what the atomic holds and leaves it, and Exchange(v)
\* returns the previous value and leaves v stored.
C32_StoreLoadRoundTrip ==
    /\ [](/\ atomic.last.op = "Store" => atomic.m_v = atomic.last.arg
          /\ atomic.last.op = "Load" =>
                atomic.last.ret = atomic.m_v /\ atomic.m_v = atomic.last.before
          /\ atomic.last.op = "Exchange" =>
                atomic.last.ret = atomic.last.before /\ atomic.m_v = atomic.last.arg)
    /\ [][atomic.last.op = "Store" /\ atomic'.last.op = "Load"
             => atomic'.last.ret = atomic.last.arg]_vars

\* The part on Load and Exchange alone.
C32_LoadAndExchange ==
    /\ atomic.last.op = "Load" =>
          atomic.last.ret = atomic.m_v /\ atomic.m_v = atomic.last.before
    /\ atomic.last.op = "Exchange" =>
          atomic.last.ret = atomic.last.before /\ atomic.m_v = atomic.last.arg

\* The metadata overhead of every block of bs, added up.
RECURSIVE OverheadOfBlocks(_)
OverheadOfBlocks(bs) ==
    IF bs = {} THEN 0
    ELSE LET b == CHOOSE x \in bs : TRUE
         IN  CalculateMetadataOverheadSize(b.size) + OverheadOfBlocks(bs \ {b})

\* What lines 253-272 accumulate: the overhead of each application pool block, of
\* the applet pool and of the non-secure system pool, then the overhead of what
\* is left below the non-secure system pool once those are taken off.
AccumulatedOverhead ==
    LET pools == OverheadOfBlocks(ApplicationPool)
                 + CalculateMetadataOverheadSize(RegionSize(AppletPool))
                 + CalculateMetadataOverheadSize(RegionSize(SystemNonSecurePool))
    IN  pools + CalculateMetadataOverheadSize(
                    RegionStart(SystemNonSecurePool) - pool.pool_partitions_start - pools)

C33_WitnessAtCarveoutLimit ==
    /\ PoolDone
    /\ RegionStart(SystemNonSecurePool) = pool.kernel_dram_start + CarveoutSizeMax

====
